---- MODULE Spec2Model ----
(***************************************************************************)
(* Provider synchronisation engine of image_slideshow: the Immich         *)
(* provider (providers/immich.py), the settings store (database.py) and    *)
(* the refresh / force-sync orchestration (api.py).                        *)
(*                                                                         *)
(* Text is modelled as a sequence of one-character strings, so that        *)
(* lower(), strip(), split(), startswith() and splitext() are computed as  *)
(* Python computes them.  A settings key is the sequence of its            *)
(* dot-separated segments: "provider.immich.api_key" is                    *)
(* <<"provider", "immich", "api_key">>.                                    *)
(***************************************************************************)
EXTENDS Integers, Sequences, FiniteSets, TLC

VARIABLES settings, folder, clock, last, instances, calls

vars == <<settings, folder, clock, last, instances, calls>>

(***************************************************************************)
(* Bounds of the model.                                                    *)
(***************************************************************************)
\* longest asset list the external server returns
MaxAssets == 2
\* most provider instances alive at a time
MaxInstances == 2
\* longest list of distinct assets refresh is run on with every choice of
\* failing downloads; more than the errors a RefreshResult retains
MaxManyAssets == 11

(***************************************************************************)
(* Text helpers (Python str methods).                                      *)
(***************************************************************************)
UpperChars == <<"A","B","C","D","E","F","G","H","I","J","K","L","M",
                "N","O","P","Q","R","S","T","U","V","W","X","Y","Z">>
LowerChars == <<"a","b","c","d","e","f","g","h","i","j","k","l","m",
                "n","o","p","q","r","s","t","u","v","w","x","y","z">>

LowerChar(c) ==
    IF \E i \in 1..Len(UpperChars) : UpperChars[i] = c
    THEN LowerChars[CHOOSE i \in 1..Len(UpperChars) : UpperChars[i] = c]
    ELSE c

\* str.lower()
Lower(s) == [i \in 1..Len(s) |-> LowerChar(s[i])]

\* str.startswith(p)
StartsWith(s, p) == Len(s) >= Len(p) /\ SubSeq(s, 1, Len(p)) = p

RECURSIVE RStrip(_, _)
\* str.rstrip(ch)
RStrip(s, ch) ==
    IF Len(s) > 0 /\ s[Len(s)] = ch THEN RStrip(SubSeq(s, 1, Len(s) - 1), ch) ELSE s

RECURSIVE LStrip(_, _)
LStrip(s, ch) ==
    IF Len(s) > 0 /\ s[1] = ch THEN LStrip(Tail(s), ch) ELSE s

\* str.strip(): the model's only whitespace character is the blank
Strip(s) == LStrip(RStrip(s, " "), " ")

RECURSIVE SplitFrom(_, _, _)
SplitFrom(s, sep, cur) ==
    IF s = <<>> THEN <<cur>>
    ELSE IF Head(s) = sep THEN <<cur>> \o SplitFrom(Tail(s), sep, <<>>)
    ELSE SplitFrom(Tail(s), sep, Append(cur, Head(s)))

\* str.split(sep): always at least one element, "" splits to [""]
Split(s, sep) == SplitFrom(s, sep, <<>>)

\* set(seq)
Range(f) == {f[i] : i \in DOMAIN f}

\* os.path.splitext(name)[1] for a name without directory separators: the
\* text from the last dot on, or "" when only dots precede that dot
SplitExt(name) ==
    LET dots == {i \in 1..Len(name) : name[i] = "."} IN
    IF dots = {} THEN <<>>
    ELSE LET d == CHOOSE i \in dots : \A j \in dots : j <= i IN
         IF \E j \in 1..(d - 1) : name[j] # "."
         THEN SubSeq(name, d, Len(name))
         ELSE <<>>

(***************************************************************************)
(* Text constants.                                                         *)
(***************************************************************************)
Empty == <<>>
sTrue == <<"T","r","u","e">>
sTrueLower == <<"t","r","u","e">>
sHttp == <<"h","t","t","p",":","/","/">>
sHttps == <<"h","t","t","p","s",":","/","/">>
sDotJpg == <<".","j","p","g">>

\* dict.get(key, default)
Get(d, k, default) == IF k \in DOMAIN d THEN d[k] ELSE default

(***************************************************************************)
(* providers/base.py                                                       *)
(***************************************************************************)
\* RefreshStatus values
SUCCESS == "success"
PARTIAL == "partial"
FAILED == "failed"
NO_IMAGES == "no_images"

\* RefreshResult(status, message) with the dataclass defaults
RefreshResult(status, message, downloaded, skipped, failed, total, errors) ==
    [status |-> status, message |-> message, downloaded |-> downloaded,
     skipped |-> skipped, failed |-> failed, total |-> total, errors |-> errors]

RefreshResultDefault(status, message) ==
    RefreshResult(status, message, 0, 0, 0, 0, <<>>)

\* BaseImageProvider.__init__ / ImmichProvider.__init__
NoClient == <<>>
NewProvider == [_config |-> <<>>, _client |-> NoClient, _last_result |-> <<>>]

(***************************************************************************)
(* providers/immich.py                                                     *)
(***************************************************************************)
\* configure keeping the client it holds
configure_keep_client(self, raw) ==
    [self EXCEPT
       !._config = [server_url |-> RStrip(Get(raw, <<"server_url">>, Empty), "/"),
                    api_key |-> Get(raw, <<"api_key">>, Empty),
                    album_name |-> Get(raw, <<"album_name">>, Empty),
                    skip_existing |-> Lower(Get(raw, <<"skip_existing">>, sTrue)) = sTrueLower]]

\* ImmichProvider.configure: self after configure(raw)
configure(self, raw) ==
    [self EXCEPT
       !._config = [server_url |-> RStrip(Get(raw, <<"server_url">>, Empty), "/"),
                    api_key |-> Get(raw, <<"api_key">>, Empty),
                    album_name |-> Get(raw, <<"album_name">>, Empty),
                    skip_existing |-> Lower(Get(raw, <<"skip_existing">>, sTrue)) = sTrueLower],
       !._client = NoClient]

\* validate_config testing the credential before the address
validate_config_key_first(self) ==
    IF Get(self._config, "api_key", Empty) = Empty
    THEN [valid |-> FALSE, error |-> "API Key is required"]
    ELSE IF Get(self._config, "server_url", Empty) = Empty
    THEN [valid |-> FALSE, error |-> "Server URL is required"]
    ELSE IF ~(StartsWith(self._config.server_url, sHttp)
              \/ StartsWith(self._config.server_url, sHttps))
    THEN [valid |-> FALSE, error |-> "Server URL must start with http:// or https://"]
    ELSE [valid |-> TRUE, error |-> "None"]

\* validate_config without the scheme rule
validate_config_no_scheme(self) ==
    IF Get(self._config, "server_url", Empty) = Empty
    THEN [valid |-> FALSE, error |-> "Server URL is required"]
    ELSE IF Get(self._config, "api_key", Empty) = Empty
    THEN [valid |-> FALSE, error |-> "API Key is required"]
    ELSE [valid |-> TRUE, error |-> "None"]

\* ImmichProvider.validate_config: (is_valid, error)
validate_config(self) ==
    IF Get(self._config, "server_url", Empty) = Empty
    THEN [valid |-> FALSE, error |-> "Server URL is required"]
    ELSE IF Get(self._config, "api_key", Empty) = Empty
    THEN [valid |-> FALSE, error |-> "API Key is required"]
    ELSE IF ~(StartsWith(self._config.server_url, sHttp)
              \/ StartsWith(self._config.server_url, sHttps))
    THEN [valid |-> FALSE, error |-> "Server URL must start with http:// or https://"]
    ELSE [valid |-> TRUE, error |-> "None"]

\* messages: a format string and its arguments
Msg(fmt, arg) == [fmt |-> fmt, arg |-> arg]

\* an exception object: its class and str(e)
Exc(type, msg) == [type |-> type, msg |-> msg]

ImportErrorText == "immich-lib package is not installed. Install it with: pip install immich-lib"

\* one call on the client library, the file system or the loop
Event(ev, i, ok) == [ev |-> ev, i |-> i, ok |-> ok]

\* ImmichProvider._get_client: the cached client, or a new ImmichClient;
\* the import may fail (ImportError is re-raised), the constructor may
\* raise anything else
get_client(self, env) ==
    IF self._client # NoClient
    THEN [raised |-> <<>>, self |-> self, log |-> <<>>]
    ELSE IF ~env.import_ok
    THEN [raised |-> <<Exc("ImportError", ImportErrorText)>>, self |-> self,
          log |-> <<Event("import immich_lib", 0, FALSE)>>]
    ELSE IF ~env.ctor_ok
    THEN [raised |-> <<Exc("Exception", "client constructor failed")>>, self |-> self,
          log |-> <<Event("ImmichClient", 0, FALSE)>>]
    ELSE [raised |-> <<>>,
          self |-> [self EXCEPT !._client =
                      <<[server_url |-> self._config.server_url,
                         api_key |-> self._config.api_key]>>],
          log |-> <<Event("ImmichClient", 0, TRUE)>>]

\* the guarded attempt taking any answer of check_auth for a success
connection_attempt_any_answer(self, env) ==
    LET c == get_client(self, env) IN
    IF c.raised # <<>>
    THEN [raised |-> <<>>, self |-> c.self, success |-> FALSE,
          message |-> Msg("Connection failed: {str(e)}", c.raised[1].msg), log |-> c.log]
    ELSE IF env.auth = "raise"
    THEN [raised |-> <<>>, self |-> c.self, success |-> FALSE,
          message |-> Msg("Connection failed: {str(e)}", "check_auth failed"),
          log |-> Append(c.log, Event("check_auth", 0, FALSE))]
    ELSE [raised |-> <<>>, self |-> c.self, success |-> TRUE,
          message |-> Msg("Connected successfully to Immich", ""),
          log |-> Append(c.log, Event("check_auth", 0, TRUE))]

\* ImmichProvider.test_connection, lines 112-124: the guarded attempt
connection_attempt(self, env) ==
    LET c == get_client(self, env) IN
    IF c.raised # <<>>
    THEN [raised |-> <<>>, self |-> c.self, success |-> FALSE,
          message |-> IF c.raised[1].type = "ImportError"
                      THEN Msg("{str(e)}", c.raised[1].msg)
                      ELSE Msg("Connection failed: {str(e)}", c.raised[1].msg),
          log |-> c.log]
    ELSE IF env.auth = "raise"
    THEN [raised |-> <<>>, self |-> c.self, success |-> FALSE,
          message |-> Msg("Connection failed: {str(e)}", "check_auth failed"),
          log |-> Append(c.log, Event("check_auth", 0, FALSE))]
    ELSE IF env.auth = "truthy"
    THEN [raised |-> <<>>, self |-> c.self, success |-> TRUE,
          message |-> Msg("Connected successfully to Immich", ""),
          log |-> Append(c.log, Event("check_auth", 0, TRUE))]
    ELSE [raised |-> <<>>, self |-> c.self, success |-> FALSE,
          message |-> Msg("Authentication failed - check your API key", ""),
          log |-> Append(c.log, Event("check_auth", 0, TRUE))]

\* ImmichProvider.test_connection: (success, message), or the exception
\* that leaves it; log is the traffic with the client library
test_connection(self, env) ==
    LET v == validate_config(self) IN
    IF ~v.valid
    THEN [raised |-> <<>>, self |-> self, success |-> FALSE,
          message |-> Msg("Configuration error: {error}", v.error), log |-> <<>>]
    ELSE connection_attempt(self, env)

\* the destination file name of an asset: originalFileName, else <id>.jpg
AssetFilename(asset) ==
    IF asset.has_name THEN asset.originalFileName ELSE asset.id \o sDotJpg

\* ImmichProvider._get_assets: the asset list, or the exception raised
get_assets(self, env) ==
    IF Strip(Get(self._config, "album_name", Empty)) # Empty
    THEN IF env.fetch = "raise"
         THEN [raised |-> <<Exc("Exception", "find_album failed")>>, assets |-> <<>>,
               log |-> <<Event("find_album", 0, FALSE)>>]
         ELSE IF env.fetch = "none"
         THEN [raised |-> <<Exc("ValueError", "Album '{album_name}' not found")>>,
               assets |-> <<>>,
               log |-> <<Event("find_album", 0, TRUE), Event("raise ValueError", 0, FALSE)>>]
         ELSE IF env.detail = "raise"
         THEN [raised |-> <<Exc("Exception", "get_album failed")>>, assets |-> <<>>,
               log |-> <<Event("find_album", 0, TRUE), Event("get_album", 0, FALSE)>>]
         ELSE IF env.detail = "none"
         THEN [raised |-> <<Exc("ValueError", "Could not retrieve album details")>>,
               assets |-> <<>>,
               log |-> <<Event("find_album", 0, TRUE), Event("get_album", 0, TRUE),
                         Event("raise ValueError", 0, FALSE)>>]
         ELSE [raised |-> <<>>, assets |-> env.assets,
               log |-> <<Event("find_album", 0, TRUE), Event("get_album", 0, TRUE)>>]
    ELSE IF env.fetch = "raise"
         THEN [raised |-> <<Exc("Exception", "list_assets failed")>>, assets |-> <<>>,
               log |-> <<Event("list_assets", 0, FALSE)>>]
         ELSE IF env.fetch = "none"
         THEN [raised |-> <<>>, assets |-> <<>>, log |-> <<Event("list_assets", 0, TRUE)>>]
         ELSE [raised |-> <<>>, assets |-> env.assets,
               log |-> <<Event("list_assets", 0, TRUE)>>]

\* a file system on which no path is ever found
PathExists_absent(entries, filename) == FALSE

\* os.path.exists(os.path.join(target_folder, filename)) for a plain name
PathExists(entries, filename) == filename \in DOMAIN entries

\* a download that writes nothing
WriteFile_nowhere(entries, filename, content) == entries

\* the entries of a directory after a file is written at name
WriteFile(entries, filename, content) ==
    [n \in DOMAIN entries \cup {filename} |->
        IF n = filename THEN content ELSE entries[n]]

\* client.download_asset(asset_id, output_path) raises when the library
\* does (env.throws), and always when output_path is a directory
DownloadThrows(entries, filename, i, env) ==
    \/ i \in env.throws
    \/ (PathExists(entries, filename) /\ entries[filename] = "dir")

\* the body of the loop without the skip-existing test
process_asset_no_skip(st, asset, i, skip_existing, env) ==
    LET filename == AssetFilename(asset) IN
    IF ~DownloadThrows(st.entries, filename, i, env)
    THEN [st EXCEPT !.entries = WriteFile(@, filename, "new"),
                    !.downloaded = @ + 1,
                    !.log = Append(@, Event("download_asset", i, TRUE))]
    ELSE [st EXCEPT !.failed = @ + 1,
                    !.errors = Append(@, Msg("Failed to download {filename}: {str(e)}",
                                             filename)),
                    !.log = Append(@, Event("download_asset", i, FALSE))]

\* ImmichProvider.refresh, lines 176-191: the body of the loop for assets[i]
process_asset(st, asset, i, skip_existing, env) ==
    LET filename == AssetFilename(asset) IN
    IF skip_existing /\ PathExists(st.entries, filename)
    THEN [st EXCEPT !.skipped = @ + 1, !.log = Append(@, Event("skip", i, TRUE))]
    ELSE IF ~DownloadThrows(st.entries, filename, i, env)
    THEN [st EXCEPT !.entries = WriteFile(@, filename, "new"),
                    !.downloaded = @ + 1,
                    !.log = Append(@, Event("download_asset", i, TRUE))]
    ELSE [st EXCEPT !.entries = IF env.partial /\ ~PathExists(@, filename)
                                THEN WriteFile(@, filename, "part") ELSE @,
                    !.failed = @ + 1,
                    !.errors = Append(@, Msg("Failed to download {filename}: {str(e)}",
                                             filename)),
                    !.log = Append(@, Event("download_asset", i, FALSE))]

\* the download made only if the destination is still absent
download_step_rechecked(st, asset, i, env) == process_asset(st, asset, i, TRUE, env)

\* ImmichProvider.refresh, lines 186-191: the try block of the loop, reached
\* once the skip test of lines 182-184 has let assets[i] through
download_step(st, asset, i, env) == process_asset(st, asset, i, FALSE, env)

RECURSIVE download_loop_abort(_, _, _, _, _)
\* the loop leaving at the first download that raises
download_loop_abort(st, assets, i, skip_existing, env) ==
    IF i > Len(assets) THEN st
    ELSE LET nxt == process_asset(st, assets[i], i, skip_existing, env) IN
         IF nxt.failed > st.failed THEN nxt
         ELSE download_loop_abort(nxt, assets, i + 1, skip_existing, env)

RECURSIVE download_loop(_, _, _, _, _)
\* ImmichProvider.refresh, line 176: for asset in assets, from index i on
download_loop(st, assets, i, skip_existing, env) ==
    IF i > Len(assets) THEN st
    ELSE download_loop(process_asset(st, assets[i], i, skip_existing, env),
                       assets, i + 1, skip_existing, env)

\* the status with the partial and failed branches exchanged
loop_status_swapped(downloaded, failed) ==
    IF failed = 0 THEN SUCCESS
    ELSE IF downloaded > 0 THEN FAILED
    ELSE PARTIAL

\* ImmichProvider.refresh, lines 195-203: status of a finished loop
loop_status(downloaded, failed) ==
    IF failed = 0 THEN SUCCESS
    ELSE IF downloaded > 0 THEN PARTIAL
    ELSE FAILED

\* ImmichProvider.refresh, lines 195-203: message of a finished loop
loop_message(downloaded, skipped, failed) ==
    IF failed = 0
    THEN [fmt |-> "Successfully downloaded {downloaded} images ({skipped} skipped)",
          downloaded |-> downloaded, skipped |-> skipped]
    ELSE IF downloaded > 0
    THEN [fmt |-> "Downloaded {downloaded} images, {failed} failed, {skipped} skipped",
          downloaded |-> downloaded, failed |-> failed, skipped |-> skipped]
    ELSE [fmt |-> "All {failed} downloads failed", failed |-> failed]

\* errors[:10]
ErrorCap == 10

\* the error list kept whole
FirstN_all(s, n) == s

FirstN(s, n) == IF Len(s) <= n THEN s ELSE SubSeq(s, 1, n)

\* what refresh hands back: a RefreshResult or an exception, the folder and
\* the provider it leaves, and its traffic
Returned(result, dir, self, log, assets) ==
    [raised |-> <<>>, result |-> <<result>>, dir |-> dir,
     self |-> [self EXCEPT !._last_result = <<result>>], log |-> log, assets |-> assets]
Raised(exc, dir, self, log) ==
    [raised |-> <<exc>>, result |-> <<>>, dir |-> dir, self |-> self, log |-> log,
     assets |-> <<>>]

\* the result whose total counts the downloads attempted
loop_result_attempted(st, assets) ==
    RefreshResult(loop_status(st.downloaded, st.failed),
                  loop_message(st.downloaded, st.skipped, st.failed),
                  st.downloaded, st.skipped, st.failed,
                  st.downloaded + st.failed, FirstN(st.errors, ErrorCap))

\* ImmichProvider.refresh, lines 193-213: the RefreshResult of a finished
\* loop over assets
loop_result(st, assets) ==
    RefreshResult(loop_status(st.downloaded, st.failed),
                  loop_message(st.downloaded, st.skipped, st.failed),
                  st.downloaded, st.skipped, st.failed,
                  Len(assets), FirstN(st.errors, ErrorCap))

\* os.makedirs(target_folder, exist_ok=True): nothing to do on an existing
\* directory; creating one may fail with OSError
MakedirsFails(dir, env) == ~dir.exists /\ ~env.mkdir_ok

\* ImmichProvider.refresh(target_folder), dir being the target folder
refresh(self, dir, env) ==
    LET v == validate_config(self)
        c == get_client(self, env)
        made == [exists |-> TRUE, entries |-> dir.entries]
        a == get_assets(c.self, env)
        mklog == Append(c.log, Event("makedirs", 0, TRUE))
        st0 == [entries |-> made.entries, downloaded |-> 0, skipped |-> 0, failed |-> 0,
                errors |-> <<>>, log |-> mklog \o a.log]
        st == download_loop(st0, a.assets, 1,
                            Get(c.self._config, "skip_existing", TRUE), env)
    IN  IF ~v.valid
        THEN Returned(RefreshResultDefault(FAILED,
                         Msg("Configuration error: {error}", v.error)), dir, self, <<>>, <<>>)
        ELSE IF c.raised # <<>> /\ c.raised[1].type = "ImportError"
        THEN Returned(RefreshResultDefault(FAILED, Msg("{str(e)}", c.raised[1].msg)),
                      dir, self, c.log, <<>>)
        ELSE IF c.raised # <<>>
        THEN Raised(c.raised[1], dir, self, c.log)
        ELSE IF MakedirsFails(dir, env)
        THEN Raised(Exc("OSError", "makedirs failed"), dir, c.self,
                    Append(c.log, Event("makedirs", 0, FALSE)))
        ELSE IF a.raised # <<>>
        THEN Returned(RefreshResultDefault(FAILED,
                         Msg("Failed to fetch assets: {str(e)}", a.raised[1].msg)),
                      made, c.self, mklog \o a.log, <<>>)
        ELSE IF Len(a.assets) = 0
        THEN Returned(RefreshResultDefault(NO_IMAGES,
                         Msg("No images found in the specified source", "")),
                      made, c.self, mklog \o a.log, <<>>)
        ELSE Returned(loop_result(st, a.assets),
                      [exists |-> TRUE, entries |-> st.entries], c.self, st.log, a.assets)

sEllipsis == <<".", ".", ".">>
sMasked == <<"*", "*", "*", "*">>

\* get_config revealing the ends of a key of 12 characters too
get_config_from_twelve(self) ==
    IF Get(self._config, "api_key", Empty) # Empty
    THEN LET key == self._config.api_key IN
         [self._config EXCEPT
            !.api_key = IF Len(key) >= 12
                        THEN SubSeq(key, 1, 8) \o sEllipsis \o SubSeq(key, Len(key) - 3, Len(key))
                        ELSE sMasked]
    ELSE self._config

\* ImmichProvider.get_config: a copy of the configuration, the API key
\* masked when there is one
get_config(self) ==
    IF Get(self._config, "api_key", Empty) # Empty
    THEN LET key == self._config.api_key IN
         [self._config EXCEPT
            !.api_key = IF Len(key) > 12
                        THEN SubSeq(key, 1, 8) \o sEllipsis \o SubSeq(key, Len(key) - 3, Len(key))
                        ELSE sMasked]
    ELSE self._config

\* RefreshResult.to_dict
to_dict(result) ==
    [status |-> result.status, message |-> result.message,
     downloaded |-> result.downloaded, skipped |-> result.skipped,
     failed |-> result.failed, total |-> result.total, errors |-> result.errors]

(***************************************************************************)
(* providers/__init__.py                                                   *)
(***************************************************************************)
\* _PROVIDERS after the module is imported
Immich == <<"immich">>
PROVIDERS == {Immich}

\* get_provider(name): a new instance, or None (the empty sequence)
get_provider(name) == IF name \in PROVIDERS THEN <<NewProvider>> ELSE <<>>

\* a registry handing out the instance it made first
Allocate_shared(heap, name) ==
    IF get_provider(name) = <<>> THEN [heap |-> heap, ref |-> <<>>]
    ELSE IF Len(heap) > 0 THEN [heap |-> heap, ref |-> <<1>>]
    ELSE [heap |-> Append(heap, get_provider(name)[1]), ref |-> <<Len(heap) + 1>>]

\* _PROVIDERS[name](): the object get_provider returns, among the objects
\* alive (heap); the place of an object in heap is its identity
Allocate(heap, name) ==
    IF get_provider(name) = <<>> THEN [heap |-> heap, ref |-> <<>>]
    ELSE [heap |-> Append(heap, get_provider(name)[1]), ref |-> <<Len(heap) + 1>>]

(***************************************************************************)
(* database.py: db is the settings table, key -> value                     *)
(***************************************************************************)
\* Database.get_setting
get_setting(db, key, default) == IF key \in DOMAIN db THEN db[key] ELSE default

\* Database.set_setting: INSERT OR REPLACE
set_setting(db, key, value) ==
    [k \in DOMAIN db \cup {key} |-> IF k = key THEN value ELSE db[k]]

\* f"provider.{provider_name}."
ProviderPrefix(provider_name) == <<"provider">> \o provider_name

\* key.startswith(prefix), the prefix ending in a dot
KeyStartsWith(key, prefix) ==
    Len(key) > Len(prefix) /\ SubSeq(key, 1, Len(prefix)) = prefix

\* Database.get_provider_settings
get_provider_settings(db, provider_name) ==
    LET prefix == ProviderPrefix(provider_name)
        keys == {k \in DOMAIN db : KeyStartsWith(k, prefix)}
    IN  [r \in {SubSeq(k, Len(prefix) + 1, Len(k)) : k \in keys} |-> db[prefix \o r]]

\* Database.set_provider_setting
set_provider_setting(db, provider_name, key, value) ==
    set_setting(db, ProviderPrefix(provider_name) \o key, value)

\* Database.set_provider_settings: set_provider_setting for each item; the
\* keys of a dictionary are distinct, so the order of the loop is immaterial
set_provider_settings(db, provider_name, d) ==
    [k \in DOMAIN db \cup {ProviderPrefix(provider_name) \o key : key \in DOMAIN d} |->
        IF \E key \in DOMAIN d : k = ProviderPrefix(provider_name) \o key
        THEN d[CHOOSE key \in DOMAIN d : k = ProviderPrefix(provider_name) \o key]
        ELSE db[k]]

\* f"provider.{provider_name}._last_sync"
LastSyncKey(provider_name) == ProviderPrefix(provider_name) \o <<"_last_sync">>

\* json.dumps(d): the text of a JSON object, its members between braces
JsonDumps(d) == <<"{", d, "}">>

\* json.loads(text): the object a JSON text holds; any other text of the
\* model (a setting value, a configuration value) raises JSONDecodeError
IsJsonObject(text) == Len(text) = 3 /\ text[1] = "{" /\ text[3] = "}"
JsonLoads(text) ==
    IF IsJsonObject(text) THEN [ok |-> TRUE, value |-> text[2]]
    ELSE [ok |-> FALSE, value |-> <<>>]

\* datetime.utcnow().isoformat() + "Z" at clock reading now
Timestamp(now) == [utc |-> now]

\* the record stored without its timestamp
set_provider_last_sync_unstamped(db, provider_name, result, now) ==
    set_setting(db, LastSyncKey(provider_name), JsonDumps(result))

\* Database.set_provider_last_sync
set_provider_last_sync(db, provider_name, result, now) ==
    set_setting(db, LastSyncKey(provider_name),
                JsonDumps([status |-> result.status, message |-> result.message,
                           downloaded |-> result.downloaded, skipped |-> result.skipped,
                           failed |-> result.failed, total |-> result.total,
                           errors |-> result.errors, timestamp |-> Timestamp(now)]))

\* Database.get_provider_last_sync: the record, or {} (the empty sequence)
get_provider_last_sync(db, provider_name) ==
    LET result_json == get_setting(db, LastSyncKey(provider_name), Empty) IN
    IF Len(result_json) = 0 THEN <<>>
    ELSE IF JsonLoads(result_json).ok THEN <<JsonLoads(result_json).value>>
    ELSE <<>>

(***************************************************************************)
(* api.py                                                                  *)
(***************************************************************************)
\* the home directory os.path.expanduser substitutes for a leading "~"
HomeDir == <<"/","h","o","m","e","/","u">>

\* os.path.expanduser(path)
expanduser(path) ==
    IF Len(path) >= 1 /\ path[1] = "~" /\ (Len(path) = 1 \/ path[2] = "/")
    THEN HomeDir \o Tail(path)
    ELSE path

kDefaultFolder == <<"default_folder">>
kImageExtensions == <<"image_extensions">>
DefaultFolderDefault ==
    <<"/","e","t","c","/","s","l","i","d","e","s","h","o","w","/","i","m","a","g","e","s">>
ImageExtensionsDefault ==
    <<".","j","p","g",",",".","j","p","e","g",",",".","p","n","g",",",
      ".","g","i","f",",",".","b","m","p",",",".","w","e","b","p">>

\* a response of the boundary: an HTTPException(code, detail), or code 200
\* with the returned dictionary
HTTPException(code, detail) ==
    [code |-> code, status |-> "exception", detail |-> detail, result |-> <<>>]
Ok(result) ==
    [code |-> 200,
     status |-> IF result.status \in {SUCCESS, PARTIAL} THEN "ok" ELSE "error",
     detail |-> Msg("", ""), result |-> <<to_dict(result)>>]

\* what a boundary call leaves: its response, the settings table, the
\* target folder, the clock, and what it did on the way (the files it
\* removed, the folder refresh was invoked on, refresh's outcome)
Outcome(resp, db, dir, now, removed, at_refresh, out) ==
    [resp |-> resp, db |-> db, dir |-> dir, now |-> now,
     removed |-> removed, at_refresh |-> at_refresh, out |-> out]

\* the safety check asking only that the folder exists
SafetyGate_exists_only(dir, target_folder) == dir.exists

\* api.py line 292: the safety check before the deletion phase
SafetyGate(dir, target_folder) == dir.exists /\ Len(target_folder) > 5

\* api.py line 295: the set of recognised extensions
valid_exts(ext_str) == {Lower(Strip(e)) : e \in Range(Split(ext_str, ","))}

\* the deletion test comparing the extension as it is written
ShouldRemove_case_sensitive(entries, item, exts) ==
    /\ entries[item] # "dir"
    /\ (SplitExt(item) \in exts \/ exts = {})

\* api.py lines 299-301: whether the deletion loop removes item
ShouldRemove(entries, item, exts) ==
    /\ entries[item] # "dir"
    /\ (SplitExt(Lower(item)) \in exts \/ exts = {})

\* api.py lines 297-302: the names the deletion loop removes
RemovedItems(entries, exts) ==
    {item \in DOMAIN entries : ShouldRemove(entries, item, exts)}

\* the directory after os.remove of each name in gone
RemoveAll(dir, gone) ==
    [dir EXCEPT !.entries = [n \in DOMAIN dir.entries \ gone |-> dir.entries[n]]]

\* the tail storing only the results of status success or partial
RefreshAndStore_when_ok(provider_name, p, db, dir, now, removed, env) ==
    LET r == refresh(p, dir, env) IN
    IF r.raised # <<>>
    THEN Outcome(HTTPException(500, Msg("{str(e)}", r.raised[1].msg)),
                 db, r.dir, now, removed, <<dir>>, <<r>>)
    ELSE IF r.result[1].status \in {SUCCESS, PARTIAL}
    THEN Outcome(Ok(r.result[1]),
                 set_provider_last_sync(db, provider_name, to_dict(r.result[1]), now),
                 r.dir, now + 1, removed, <<dir>>, <<r>>)
    ELSE Outcome(Ok(r.result[1]), db, r.dir, now, removed, <<dir>>, <<r>>)

\* refresh_provider / force_sync_provider, after the preamble: run refresh
\* on dir and store its result; an exception of refresh becomes a 500
RefreshAndStore(provider_name, p, db, dir, now, removed, env) ==
    LET r == refresh(p, dir, env) IN
    IF r.raised # <<>>
    THEN Outcome(HTTPException(500, Msg("{str(e)}", r.raised[1].msg)),
                 db, r.dir, now, removed, <<dir>>, <<r>>)
    ELSE Outcome(Ok(r.result[1]),
                 set_provider_last_sync(db, provider_name, to_dict(r.result[1]), now),
                 r.dir, now + 1, removed, <<dir>>, <<r>>)

NotFound(provider_name, db, dir, now) ==
    Outcome(HTTPException(404, Msg("Provider '{provider_name}' not found", "")),
            db, dir, now, {}, <<>>, <<>>)

\* api.py refresh_provider
refresh_provider(provider_name, db, dir, now, env) ==
    IF get_provider(provider_name) = <<>> THEN NotFound(provider_name, db, dir, now)
    ELSE
    LET p == configure(get_provider(provider_name)[1],
                       get_provider_settings(db, provider_name))
        v == validate_config(p)
    IN  IF ~v.valid
        THEN Outcome(HTTPException(400, Msg("Provider not configured: {error}", v.error)),
                     db, dir, now, {}, <<>>, <<>>)
        ELSE RefreshAndStore(provider_name, p, db, dir, now, {}, env)

\* force-sync running refresh first and the deletion phase after it
force_sync_provider_refresh_first(provider_name, db, dir, now, env) ==
    IF get_provider(provider_name) = <<>> THEN NotFound(provider_name, db, dir, now)
    ELSE
    LET p == configure(get_provider(provider_name)[1],
                       get_provider_settings(db, provider_name))
        v == validate_config(p)
        target_folder == expanduser(get_setting(db, kDefaultFolder, DefaultFolderDefault))
        exts == valid_exts(get_setting(db, kImageExtensions, ImageExtensionsDefault))
        o == RefreshAndStore(provider_name, p, db, dir, now, {}, env)
        gone == IF SafetyGate(o.dir, target_folder)
                THEN RemovedItems(o.dir.entries, exts) ELSE {}
    IN  IF ~v.valid
        THEN Outcome(HTTPException(500,
                        Msg("{str(HTTPException(400, 'Provider not configured: {error}'))}",
                            v.error)),
                     db, dir, now, {}, <<>>, <<>>)
        ELSE [o EXCEPT !.dir = RemoveAll(o.dir, gone), !.removed = gone]

\* api.py force_sync_provider; its handler has no "except HTTPException:
\* raise", so the 400 of the preamble is caught by "except Exception" and
\* leaves as a 500 carrying str() of the HTTPException
force_sync_provider(provider_name, db, dir, now, env) ==
    IF get_provider(provider_name) = <<>> THEN NotFound(provider_name, db, dir, now)
    ELSE
    LET p == configure(get_provider(provider_name)[1],
                       get_provider_settings(db, provider_name))
        v == validate_config(p)
        target_folder == expanduser(get_setting(db, kDefaultFolder, DefaultFolderDefault))
        exts == valid_exts(get_setting(db, kImageExtensions, ImageExtensionsDefault))
        gone == IF SafetyGate(dir, target_folder)
                THEN RemovedItems(dir.entries, exts) ELSE {}
    IN  IF ~v.valid
        THEN Outcome(HTTPException(500,
                        Msg("{str(HTTPException(400, 'Provider not configured: {error}'))}",
                            v.error)),
                     db, dir, now, {}, <<>>, <<>>)
        ELSE RefreshAndStore(provider_name, p, db, RemoveAll(dir, gone), now, gone, env)

\* a handler that returns: code 200 with the returned dictionary
Reply(body) ==
    [code |-> 200, status |-> "ok", detail |-> Msg("", ""), result |-> <<body>>]

\* a handler that leaves the store, the folder and the clock alone
Answer(resp, db, dir, now) == Outcome(resp, db, dir, now, {}, <<>>, <<>>)

\* api.py get_provider_info
get_provider_info(provider_name, db, dir, now) ==
    IF get_provider(provider_name) = <<>> THEN NotFound(provider_name, db, dir, now)
    ELSE
    LET p == configure(get_provider(provider_name)[1],
                       get_provider_settings(db, provider_name))
        v == validate_config(p)
    IN  Answer(Reply([name |-> provider_name, configured |-> v.valid,
                      config_error |-> v.error, config |-> get_config(p),
                      last_sync |-> get_provider_last_sync(db, provider_name)]),
               db, dir, now)

\* api.py get_provider_config
get_provider_config(provider_name, db, dir, now) ==
    IF get_provider(provider_name) = <<>> THEN NotFound(provider_name, db, dir, now)
    ELSE
    LET p == configure(get_provider(provider_name)[1],
                       get_provider_settings(db, provider_name))
    IN  Answer(Reply([values |-> get_config(p)]), db, dir, now)

\* {**existing, **settings}
Merge(existing, incoming) ==
    [k \in DOMAIN existing \cup DOMAIN incoming |->
        IF k \in DOMAIN incoming THEN incoming[k] ELSE existing[k]]

\* the settings table without the keys of a provider
WithoutProvider(db, provider_name) ==
    [k \in {x \in DOMAIN db : ~KeyStartsWith(x, ProviderPrefix(provider_name))} |-> db[k]]

\* the update saving the incoming keys in place of the stored ones
update_provider_config_replace(provider_name, incoming, db, dir, now) ==
    IF get_provider(provider_name) = <<>> THEN NotFound(provider_name, db, dir, now)
    ELSE
    LET p == configure(get_provider(provider_name)[1], incoming)
        v == validate_config(p)
    IN  IF ~v.valid
        THEN Answer(HTTPException(400, Msg("Invalid configuration: {error}", v.error)),
                    db, dir, now)
        ELSE Answer(Reply([status |-> "ok"]),
                    set_provider_settings(WithoutProvider(db, provider_name),
                                          provider_name, incoming),
                    dir, now)

\* the update saving the merged settings before it validates them
update_provider_config_save_first(provider_name, incoming, db, dir, now) ==
    IF get_provider(provider_name) = <<>> THEN NotFound(provider_name, db, dir, now)
    ELSE
    LET existing == get_provider_settings(db, provider_name)
        merged == Merge(existing, incoming)
        p == configure(get_provider(provider_name)[1], merged)
        v == validate_config(p)
        saved == set_provider_settings(db, provider_name, merged)
    IN  IF ~v.valid
        THEN Answer(HTTPException(400, Msg("Invalid configuration: {error}", v.error)),
                    saved, dir, now)
        ELSE Answer(Reply([status |-> "ok"]), saved, dir, now)

\* api.py update_provider_config
update_provider_config(provider_name, incoming, db, dir, now) ==
    IF get_provider(provider_name) = <<>> THEN NotFound(provider_name, db, dir, now)
    ELSE
    LET existing == get_provider_settings(db, provider_name)
        merged == Merge(existing, incoming)
        p == configure(get_provider(provider_name)[1], merged)
        v == validate_config(p)
    IN  IF ~v.valid
        THEN Answer(HTTPException(400, Msg("Invalid configuration: {error}", v.error)),
                    db, dir, now)
        ELSE Answer(Reply([status |-> "ok"]),
                    set_provider_settings(db, provider_name, merged), dir, now)

\* api.py test_provider_connection
test_provider_connection(provider_name, db, dir, now, env) ==
    IF get_provider(provider_name) = <<>> THEN NotFound(provider_name, db, dir, now)
    ELSE
    LET p == configure(get_provider(provider_name)[1],
                       get_provider_settings(db, provider_name))
        t == test_connection(p, env)
    IN  IF t.raised # <<>>
        THEN Answer(HTTPException(500, Msg("{str(e)}", t.raised[1].msg)), db, dir, now)
        ELSE Answer([Reply([success |-> t.success, message |-> t.message])
                        EXCEPT !.status = IF t.success THEN "ok" ELSE "error"],
                    db, dir, now)

\* api.py get_provider_status
get_provider_status(provider_name, db, dir, now) ==
    IF get_provider(provider_name) = <<>> THEN NotFound(provider_name, db, dir, now)
    ELSE Answer(Reply([provider |-> provider_name,
                       last_sync |-> get_provider_last_sync(db, provider_name)]),
                db, dir, now)

\* the albums the server lists: one with every field, one with none
ServerAlbums ==
    <<[id |-> "a1", albumName |-> "Trip", assetCount |-> 3], [other |-> "x"]>>

\* the entry fetch_provider_albums puts in front of the albums
AllAssets == [id |-> "", name |-> "(All Assets)", count |-> 0]

\* the dropdown entries of the albums listed
FormatAlbums(albums) ==
    [i \in 1..Len(albums) |->
        [id |-> Get(albums[i], "id", ""), name |-> Get(albums[i], "albumName", "Unknown"),
         count |-> Get(albums[i], "assetCount", 0)]]

\* what fetch_provider_albums leaves: its response and its traffic with the
\* client library
AlbumsAnswer(resp, db, dir, now, log) ==
    Outcome(resp, db, dir, now, {}, <<>>, <<[log |-> log]>>)

\* the helper listing the albums without looking at the answer of check_auth
fetch_provider_albums_unchecked(provider_name, credentials, db, dir, now, env) ==
    LET server_url == RStrip(Get(credentials, <<"server_url">>, Empty), "/")
        api_key == Get(credentials, <<"api_key">>, Empty)
        made == <<Event("ImmichClient", 0, TRUE)>>
        failed == HTTPException(500, Msg("Failed to fetch albums: {str(e)}", ""))
    IN  IF provider_name # <<"immich">>
        THEN AlbumsAnswer(HTTPException(400,
                             Msg("Album fetching only supported for Immich provider", "")),
                          db, dir, now, <<>>)
        ELSE IF server_url = Empty \/ api_key = Empty
        THEN AlbumsAnswer(HTTPException(400, Msg("Server URL and API Key are required", "")),
                          db, dir, now, <<>>)
        ELSE IF ~env.import_ok
        THEN AlbumsAnswer(HTTPException(500, Msg("immich-lib package not installed", "")),
                          db, dir, now, <<Event("import immich_lib", 0, FALSE)>>)
        ELSE IF ~env.ctor_ok
        THEN AlbumsAnswer(failed, db, dir, now, <<Event("ImmichClient", 0, FALSE)>>)
        ELSE IF env.auth = "raise"
        THEN AlbumsAnswer(failed, db, dir, now, Append(made, Event("check_auth", 0, FALSE)))
        ELSE IF env.fetch = "raise"
        THEN AlbumsAnswer(failed, db, dir, now,
                          made \o <<Event("check_auth", 0, TRUE),
                                    Event("list_albums", 0, FALSE)>>)
        ELSE AlbumsAnswer(Reply([albums |-> <<AllAssets>> \o
                                    FormatAlbums(IF env.fetch = "none" THEN <<>>
                                                 ELSE ServerAlbums)]),
                          db, dir, now,
                          made \o <<Event("check_auth", 0, TRUE),
                                    Event("list_albums", 0, TRUE)>>)

\* api.py fetch_provider_albums: the name is compared with "immich", the
\* registry is not consulted
fetch_provider_albums(provider_name, credentials, db, dir, now, env) ==
    LET server_url == RStrip(Get(credentials, <<"server_url">>, Empty), "/")
        api_key == Get(credentials, <<"api_key">>, Empty)
        made == <<Event("ImmichClient", 0, TRUE)>>
        failed == HTTPException(500, Msg("Failed to fetch albums: {str(e)}", ""))
    IN  IF provider_name # <<"immich">>
        THEN AlbumsAnswer(HTTPException(400,
                             Msg("Album fetching only supported for Immich provider", "")),
                          db, dir, now, <<>>)
        ELSE IF server_url = Empty \/ api_key = Empty
        THEN AlbumsAnswer(HTTPException(400, Msg("Server URL and API Key are required", "")),
                          db, dir, now, <<>>)
        ELSE IF ~env.import_ok
        THEN AlbumsAnswer(HTTPException(500, Msg("immich-lib package not installed", "")),
                          db, dir, now, <<Event("import immich_lib", 0, FALSE)>>)
        ELSE IF ~env.ctor_ok
        THEN AlbumsAnswer(failed, db, dir, now, <<Event("ImmichClient", 0, FALSE)>>)
        ELSE IF env.auth = "raise"
        THEN AlbumsAnswer(failed, db, dir, now, Append(made, Event("check_auth", 0, FALSE)))
        ELSE IF env.auth # "truthy"
        THEN AlbumsAnswer(HTTPException(401,
                             Msg("Authentication failed - check your API key", "")),
                          db, dir, now, Append(made, Event("check_auth", 0, TRUE)))
        ELSE IF env.fetch = "raise"
        THEN AlbumsAnswer(failed, db, dir, now,
                          made \o <<Event("check_auth", 0, TRUE),
                                    Event("list_albums", 0, FALSE)>>)
        ELSE AlbumsAnswer(Reply([albums |-> <<AllAssets>> \o
                                    FormatAlbums(IF env.fetch = "none" THEN <<>>
                                                 ELSE ServerAlbums)]),
                          db, dir, now,
                          made \o <<Event("check_auth", 0, TRUE),
                                    Event("list_albums", 0, TRUE)>>)

(***************************************************************************)
(* The inputs of the model: stored configurations, folders, file names,    *)
(* the assets the server lists and the ways the outside world answers.     *)
(***************************************************************************)
sUrl == <<"h","t","t","p",":","/","/","x">>
sUrlSlash == <<"h","t","t","p",":","/","/","x","/">>
sFtpUrl == <<"f","t","p",":","/","/","x">>
sKey == <<"k">>
sAlbum == <<"v">>
sFalseLower == <<"f","a","l","s","e">>

\* a key the caller leaves out
None == <<"None">>

\* a mapping from the given keys (None left out)
Dict(url, key, album, skip) ==
    LET pairs == {<<<<"server_url">>, url>>, <<<<"api_key">>, key>>,
                  <<<<"album_name">>, album>>, <<<<"skip_existing">>, skip>>}
        kept == {q \in pairs : q[2] # None}
    IN  [k \in {q[1] : q \in kept} |-> (CHOOSE q \in kept : q[1] = k)[2]]

\* the provider configurations a store or a caller holds
RawConfigs ==
    { Dict(None, None, None, None),
      Dict(sUrlSlash, sKey, None, None),
      Dict(sUrl, sKey, Empty, sFalseLower),
      Dict(sUrl, sKey, sAlbum, sTrue),
      Dict(sFtpUrl, sKey, None, None),
      Dict(sUrl, Empty, None, None) }

\* candidate default_folder settings: one the safety check refuses, one it
\* accepts after home-directory expansion
sShortFolder == <<"/","i","m","g">>
sHomeFolder == <<"~","/","i">>
FolderSettings == {sShortFolder, sHomeFolder}

\* candidate image_extensions settings
sExtJpg == <<".","j","p","g">>
sExtMixed == <<".","J","P","G",","," ",".","t","x","t">>
ExtSettings == {sExtJpg, sExtMixed, Empty}

\* file names
fUpperJpg == <<"B",".","J","P","G">>
fTxt == <<"b",".","t","x","t">>
fReadme == <<"R","E","A","D","M","E">>
fSubdir == <<"d",".","j","p","g">>
InitialFiles == {fUpperJpg, fTxt, fReadme}

\* the target folder before the first call: absent, or a directory holding
\* one subdirectory and some files
InitialFolders ==
    {[exists |-> FALSE, entries |-> [n \in {} |-> "old"]]}
    \cup {[exists |-> TRUE,
           entries |-> [n \in fs \cup {fSubdir} |-> IF n = fSubdir THEN "dir" ELSE "old"]]
          : fs \in SUBSET InitialFiles}

\* the assets of the server: one named like a file of the folder, one
\* without originalFileName
Asset1 == [id |-> <<"1">>, has_name |-> TRUE, originalFileName |-> fTxt]
Asset2 == [id |-> <<"2">>, has_name |-> FALSE, originalFileName |-> Empty]
Assets == {Asset1, Asset2}

RECURSIVE SeqsUpTo(_, _)
SeqsUpTo(S, n) ==
    IF n = 0 THEN {<<>>}
    ELSE LET shorter == SeqsUpTo(S, n - 1) IN
         shorter \cup {Append(q, x) : q \in {r \in shorter : Len(r) = n - 1}, x \in S}

AssetLists == SeqsUpTo(Assets, MaxAssets)

\* the answers of the outside world to one call: whether the client library
\* imports and constructs, whether the folder can be created, what
\* check_auth, the listing calls and each download do
BaseEnv ==
    [import_ok |-> TRUE, ctor_ok |-> TRUE, mkdir_ok |-> TRUE, auth |-> "truthy",
     fetch |-> "ok", detail |-> "ok", assets |-> <<>>, throws |-> {}, partial |-> FALSE]

\* the answers test_connection can meet
ConnEnvs ==
    {BaseEnv, [BaseEnv EXCEPT !.import_ok = FALSE], [BaseEnv EXCEPT !.ctor_ok = FALSE],
     [BaseEnv EXCEPT !.auth = "falsy"], [BaseEnv EXCEPT !.auth = "raise"]}

\* the answers refresh can meet
Envs ==
    {[BaseEnv EXCEPT !.import_ok = FALSE], [BaseEnv EXCEPT !.ctor_ok = FALSE],
     [BaseEnv EXCEPT !.mkdir_ok = FALSE],
     [BaseEnv EXCEPT !.fetch = "raise"], [BaseEnv EXCEPT !.fetch = "none"],
     [BaseEnv EXCEPT !.detail = "raise"], [BaseEnv EXCEPT !.detail = "none"]}
    \cup UNION {UNION {{[BaseEnv EXCEPT !.assets = a, !.throws = t, !.partial = pw] :
                           pw \in IF t = {} THEN {FALSE} ELSE BOOLEAN} :
                       t \in SUBSET (1..Len(a))} :
                a \in AssetLists}

(***************************************************************************)
(* The state machine.  settings is the settings table, folder the          *)
(* directory at the resolved default_folder, clock the UTC clock, last the *)
(* record of the call made: what was called, on what, and what it did,     *)
(* instances the provider objects the registry has handed out.  A          *)
(* behaviour of the boundary or of the store is one call, made in any      *)
(* state of the store and the folder.                                      *)
(***************************************************************************)
ProviderNames == {Immich, <<"nope">>}

\* the settings table holding a provider configuration and the two
\* settings the orchestration reads
Store(raw, folder_setting, ext_setting) ==
    LET keys == {ProviderPrefix(Immich) \o k : k \in DOMAIN raw}
                \cup {kDefaultFolder, kImageExtensions}
    IN  [k \in keys |->
            IF k = kDefaultFolder THEN folder_setting
            ELSE IF k = kImageExtensions THEN ext_setting
            ELSE raw[SubSeq(k, Len(ProviderPrefix(Immich)) + 1, Len(k))]]

\* the record of an earlier sync attempt
OldResult == RefreshResultDefault(NO_IMAGES, Msg("No images found in the specified source", ""))

NoCall ==
    [op |-> "none", name |-> <<>>, self |-> <<>>, resp |-> <<>>, conn |-> <<>>,
     removed |-> {}, at_refresh |-> <<>>, out |-> <<>>, throws |-> {}, auth |-> "",
     db0 |-> <<>>, dir0 |-> <<>>, now0 |-> 0, again |-> <<>>, arg |-> <<>>]

\* the boundary is called on any store and any folder
Init ==
    /\ \E raw \in RawConfigs, f \in FolderSettings, e \in ExtSettings, old \in BOOLEAN :
          settings = IF old
                     THEN set_provider_last_sync(Store(raw, f, e), Immich, to_dict(OldResult), 0)
                     ELSE Store(raw, f, e)
    /\ folder \in InitialFolders
    /\ clock = 1
    /\ last = NoCall
    /\ instances = <<>>
    /\ calls = <<>>

\* the provider contract is called on any folder; it never reads the store
InitContract ==
    /\ settings = Store(Dict(None, None, None, None), sHomeFolder, sExtJpg)
    /\ folder \in InitialFolders
    /\ clock = 1
    /\ last = NoCall
    /\ instances = <<>>
    /\ calls = <<>>

\* no call has been made yet
Idle == last.op = "none"

\* the record of a call: the operation, the state it started in and the
\* answers of the outside world that the claims speak of
Called(op, name, env) ==
    [NoCall EXCEPT !.op = op, !.name = name, !.throws = env.throws \cap (1..Len(env.assets)),
                   !.auth = env.auth, !.db0 = <<settings>>, !.dir0 = <<folder>>,
                   !.now0 = clock]

\* a call of the boundary finished with outcome o
Finish(op, name, env, o) ==
    /\ settings' = o.db
    /\ folder' = o.dir
    /\ clock' = o.now
    /\ last' = [Called(op, name, env) EXCEPT !.resp = <<o.resp>>, !.removed = o.removed,
                                             !.at_refresh = o.at_refresh, !.out = o.out]
    /\ UNCHANGED <<instances, calls>>

\* POST /providers/{provider_name}/refresh
RefreshProvider ==
    /\ Idle
    /\ \E name \in ProviderNames, env \in Envs :
          Finish("refresh_provider", name, env,
                 refresh_provider(name, settings, folder, clock, env))

\* POST /providers/{provider_name}/force-sync
ForceSyncProvider ==
    /\ Idle
    /\ \E name \in ProviderNames, env \in Envs :
          Finish("force_sync_provider", name, env,
                 force_sync_provider(name, settings, folder, clock, env))

\* the providers a caller of the contract holds: new, or configured
Providers == {NewProvider} \cup {configure(NewProvider, raw) : raw \in RawConfigs}

\* a caller of the provider contract: refresh(target_folder) on a provider
ProviderRefresh ==
    /\ Idle
    /\ \E p \in Providers, env \in Envs :
          LET r == refresh(p, folder, env) IN
          /\ folder' = r.dir
          /\ last' = [Called("refresh", <<>>, env) EXCEPT !.self = <<p>>,
                                                          !.at_refresh = <<folder>>,
                                                          !.out = <<r>>]
          /\ UNCHANGED <<settings, clock, instances, calls>>

\* a caller of the provider contract: test_connection() on a provider
ProviderTestConnection ==
    /\ Idle
    /\ \E p \in Providers, env \in ConnEnvs :
          /\ last' = [Called("test_connection", <<>>, env) EXCEPT
                         !.self = <<p>>, !.conn = <<test_connection(p, env)>>]
          /\ UNCHANGED <<settings, folder, clock, instances, calls>>

\* provider names the store is called with: "immich", "demo", and "demo.v2"
Demo == <<"demo">>
DemoV2 == <<"demo", "v2">>
StoreNames == {Immich, Demo, DemoV2}

\* keys, values and dictionaries a caller of the store passes
StoreKeys == {<<"api_key">>, <<"album_name">>}
StoreValues == {sKey, sAlbum}
StoreDicts ==
    {Dict(sUrl, sKey, None, None), Dict(None, sAlbum, sKey, None)}
StoreResults ==
    {OldResult, RefreshResult(PARTIAL, loop_message(1, 0, 1), 1, 0, 1, 2,
                              <<Msg("Failed to download {filename}: {str(e)}", fTxt)>>)}

\* the store is called in any state in which providers have settings and
\* sync records
InitStore ==
    /\ \E raw \in {Dict(None, None, None, None), Dict(sUrl, sKey, sAlbum, sTrue)},
          demo \in SUBSET {Demo, DemoV2}, synced \in SUBSET {Demo, DemoV2} :
          LET db0 == Store(raw, sHomeFolder, sExtJpg)
              db1 == IF Demo \in demo
                     THEN set_provider_setting(db0, Demo, <<"api_key">>, sUrl) ELSE db0
              db2 == IF DemoV2 \in demo
                     THEN set_provider_setting(db1, DemoV2, <<"api_key">>, sUrl) ELSE db1
              db3 == IF Demo \in synced
                     THEN set_provider_last_sync(db2, Demo, to_dict(OldResult), 0) ELSE db2
          IN  settings = IF DemoV2 \in synced
                         THEN set_provider_last_sync(db3, DemoV2, to_dict(OldResult), 0)
                         ELSE db3
    /\ folder \in {f \in InitialFolders : ~f.exists}
    /\ clock = 1
    /\ last = NoCall
    /\ instances = <<>>
    /\ calls = <<>>

\* db.set_provider_setting(name, key, value)
SetProviderSetting ==
    /\ Idle
    /\ \E name \in StoreNames, key \in StoreKeys, value \in StoreValues :
          /\ settings' = set_provider_setting(settings, name, key, value)
          /\ last' = [Called("set_provider_setting", name, BaseEnv) EXCEPT
                         !.arg = <<[k \in {key} |-> value]>>]
          /\ UNCHANGED <<folder, clock, instances, calls>>

\* db.set_provider_settings(name, settings)
SetProviderSettings ==
    /\ Idle
    /\ \E name \in StoreNames, d \in StoreDicts :
          /\ settings' = set_provider_settings(settings, name, d)
          /\ last' = [Called("set_provider_settings", name, BaseEnv) EXCEPT !.arg = <<d>>]
          /\ UNCHANGED <<folder, clock, instances, calls>>

\* db.set_provider_last_sync(name, result)
SetProviderLastSync ==
    /\ Idle
    /\ \E name \in StoreNames, result \in StoreResults :
          /\ settings' = set_provider_last_sync(settings, name, to_dict(result), clock)
          /\ clock' = clock + 1
          /\ last' = [Called("set_provider_last_sync", name, BaseEnv) EXCEPT
                         !.arg = <<to_dict(result)>>]
          /\ UNCHANGED <<folder, instances, calls>>

\* a call of the boundary with a request body finished with outcome o
FinishBody(op, name, env, body, o) ==
    /\ settings' = o.db
    /\ folder' = o.dir
    /\ clock' = o.now
    /\ last' = [Called(op, name, env) EXCEPT !.resp = <<o.resp>>, !.arg = <<body>>,
                                             !.out = o.out]
    /\ UNCHANGED <<instances, calls>>

\* the request bodies of POST /providers/{provider_name}/config
sKey2 == <<"k", "2">>
Incoming ==
    { Dict(None, None, None, None),
      Dict(None, None, Empty, None),
      Dict(None, sKey2, None, None),
      Dict(sUrl, sKey, None, None),
      Dict(sFtpUrl, None, None, sFalseLower),
      Dict(None, Empty, sAlbum, None) }

\* the request bodies of POST /providers/{provider_name}/albums
Credentials ==
    {Dict(None, None, None, None), Dict(sUrlSlash, sKey, None, None),
     Dict(<<"/">>, sKey, None, None), Dict(sUrl, Empty, None, None)}

\* the answers fetch_provider_albums can meet
AlbumEnvs ==
    ConnEnvs \cup {[BaseEnv EXCEPT !.fetch = "raise"], [BaseEnv EXCEPT !.fetch = "none"]}

\* GET /providers/{provider_name}
GetProviderInfo ==
    /\ Idle
    /\ \E name \in ProviderNames :
          Finish("get_provider_info", name, BaseEnv,
                 get_provider_info(name, settings, folder, clock))

\* GET /providers/{provider_name}/config
GetProviderConfig ==
    /\ Idle
    /\ \E name \in ProviderNames :
          Finish("get_provider_config", name, BaseEnv,
                 get_provider_config(name, settings, folder, clock))

\* POST /providers/{provider_name}/config
UpdateProviderConfig ==
    /\ Idle
    /\ \E name \in ProviderNames, incoming \in Incoming :
          FinishBody("update_provider_config", name, BaseEnv, incoming,
                     update_provider_config(name, incoming, settings, folder, clock))

\* POST /providers/{provider_name}/test
TestProviderConnection ==
    /\ Idle
    /\ \E name \in ProviderNames, env \in ConnEnvs :
          Finish("test_provider_connection", name, env,
                 test_provider_connection(name, settings, folder, clock, env))

\* GET /providers/{provider_name}/status
GetProviderStatus ==
    /\ Idle
    /\ \E name \in ProviderNames :
          Finish("get_provider_status", name, BaseEnv,
                 get_provider_status(name, settings, folder, clock))

\* POST /providers/{provider_name}/albums
FetchProviderAlbums ==
    /\ Idle
    /\ \E name \in ProviderNames, credentials \in Credentials, env \in AlbumEnvs :
          FinishBody("fetch_provider_albums", name, env, credentials,
                     fetch_provider_albums(name, credentials, settings, folder, clock, env))

NextApi ==
    \/ GetProviderInfo
    \/ GetProviderConfig
    \/ UpdateProviderConfig
    \/ TestProviderConnection
    \/ RefreshProvider
    \/ ForceSyncProvider
    \/ GetProviderStatus
    \/ FetchProviderAlbums

(***************************************************************************)
(* The slideshow settings: database.py start-up and config.ini sync,       *)
(* api.py update_config and sync_config.                                   *)
(***************************************************************************)
kEnableInky == <<"enable_inky">>
kDefaultInterval == <<"default_interval">>
sFalseCap == <<"F","a","l","s","e">>
s5 == <<"5">>
s29 == <<"2","9">>
s30 == <<"3","0">>
s60 == <<"6","0">>
sNotANumber == <<"x">>

Digits == <<"0","1","2","3","4","5","6","7","8","9">>
IsDigit(c) == \E d \in 1..Len(Digits) : Digits[d] = c
DigitValue(c) == (CHOOSE d \in 1..Len(Digits) : Digits[d] = c) - 1

RECURSIVE DecimalValue(_)
DecimalValue(text) ==
    IF text = <<>> THEN 0
    ELSE 10 * DecimalValue(SubSeq(text, 1, Len(text) - 1)) + DigitValue(text[Len(text)])

\* int(text) for a text without sign, blanks or underscores: the number, or
\* ValueError
ParseInt(text) ==
    IF Len(text) > 0 /\ \A i \in 1..Len(text) : IsDigit(text[i])
    THEN [ok |-> TRUE, value |-> DecimalValue(text)]
    ELSE [ok |-> FALSE, value |-> 0]

\* value.lower() == 'true'
IsTrueText(text) == Lower(text) = sTrueLower

\* Database.load_defaults: each built-in default whose key is missing
BuiltinDefaults ==
    [k \in {kDefaultFolder, kDefaultInterval, kImageExtensions, kEnableInky} |->
        IF k = kDefaultFolder THEN DefaultFolderDefault
        ELSE IF k = kDefaultInterval THEN s5
        ELSE IF k = kImageExtensions THEN ImageExtensionsDefault
        ELSE sFalseCap]
load_defaults(db) ==
    [k \in DOMAIN db \cup DOMAIN BuiltinDefaults |->
        IF k \in DOMAIN db THEN db[k] ELSE BuiltinDefaults[k]]

\* for key, value in items: db.set_setting(key, value)
set_all(db, items) ==
    [k \in DOMAIN db \cup DOMAIN items |-> IF k \in DOMAIN items THEN items[k] ELSE db[k]]

\* a config.ini: not found, found without a [slideshow] section, or found
\* with the keys of its [slideshow] section
NoFile == [found |-> FALSE, has_section |-> FALSE, slideshow |-> <<>>]
NoSection == [found |-> TRUE, has_section |-> FALSE, slideshow |-> <<>>]
ConfigFile(section) == [found |-> TRUE, has_section |-> TRUE, slideshow |-> section]

\* Database.sync_with_config: the settings table after it, what it returns,
\* or the exception leaving it
sync_with_config(db, file) ==
    IF ~file.found \/ ~file.has_section
    THEN [raised |-> <<>>, ok |-> FALSE,
          db |-> IF DOMAIN db = {} THEN load_defaults(db) ELSE db]
    ELSE LET inky_enabled == IsTrueText(Get(file.slideshow, kEnableInky, sFalseCap))
             interval == ParseInt(Get(file.slideshow, kDefaultInterval, s30))
             section == IF inky_enabled /\ interval.value < 30
                        THEN set_all(file.slideshow, [k \in {kDefaultInterval} |-> s30])
                        ELSE file.slideshow
         IN  IF ~interval.ok
             THEN [raised |-> <<Exc("ValueError", "invalid literal for int()")>>,
                   ok |-> FALSE, db |-> db]
             ELSE [raised |-> <<>>, ok |-> TRUE, db |-> set_all(db, section)]

\* Database._validate_inky_constraint
validate_inky_constraint(db) ==
    LET is_inky == IsTrueText(Get(db, kEnableInky, sFalseCap))
        interval == ParseInt(Get(db, kDefaultInterval, s30))
    IN  IF ~interval.ok
        THEN [raised |-> <<Exc("ValueError", "invalid literal for int()")>>, db |-> db]
        ELSE IF is_inky /\ interval.value < 30
        THEN [raised |-> <<>>, db |-> set_setting(db, kDefaultInterval, s30)]
        ELSE [raised |-> <<>>, db |-> db]

\* Database.__init__ on the table db and the config.ini file: load_defaults,
\* sync_with_config, _validate_inky_constraint
DatabaseInit(db, file) ==
    LET synced == sync_with_config(load_defaults(db), file) IN
    IF synced.raised # <<>> THEN [raised |-> synced.raised, db |-> synced.db]
    ELSE validate_inky_constraint(synced.db)

\* api.py update_config
update_config(body, db) ==
    LET new_inky == IsTrueText(Get(body, kEnableInky, Get(db, kEnableInky, sFalseCap)))
        new_interval == ParseInt(Get(body, kDefaultInterval, Get(db, kDefaultInterval, s5)))
    IN  IF ~new_interval.ok
        THEN [resp |-> HTTPException(500, Msg("{str(e)}", "invalid literal for int()")),
              db |-> db]
        ELSE IF new_inky /\ new_interval.value < 30
        THEN [resp |-> HTTPException(400,
                 Msg("Default interval must be at least 30 seconds when Inky is enabled.", "")),
              db |-> db]
        ELSE [resp |-> Reply([status |-> "ok"]), db |-> set_all(db, body)]

\* api.py sync_config
sync_config(db, file) ==
    LET r == sync_with_config(db, file) IN
    IF r.raised # <<>>
    THEN [resp |-> HTTPException(500, Msg("{str(e)}", r.raised[1].msg)), db |-> r.db]
    ELSE [resp |-> [Reply([synced |-> r.ok]) EXCEPT !.status = IF r.ok THEN "ok" ELSE "warning"],
          db |-> r.db]

\* a mapping holding enable_inky and default_interval (None left out)
InkyDict(inky, interval) ==
    LET pairs == {<<kEnableInky, inky>>, <<kDefaultInterval, interval>>}
        kept == {q \in pairs : q[2] # None}
    IN  [k \in {q[1] : q \in kept} |-> (CHOOSE q \in kept : q[1] = k)[2]]

\* the request bodies of POST /config and the [slideshow] sections of a
\* config.ini
InkyDicts ==
    {InkyDict(inky, interval) : inky \in {None, sTrue, sTrueLower, sFalseCap},
                                interval \in {None, s5, s29, s30, s60, sNotANumber}}
ConfigFiles == {NoFile, NoSection} \cup {ConfigFile(d) : d \in InkyDicts}

\* the table a first start-up leaves: Database() on an empty table and any
\* config.ini that lets it start
InitConfig ==
    /\ \E file \in ConfigFiles :
          /\ DatabaseInit(<<>>, file).raised = <<>>
          /\ settings = DatabaseInit(<<>>, file).db
    /\ folder \in {f \in InitialFolders : ~f.exists}
    /\ clock = 1
    /\ last = NoCall
    /\ instances = <<>>
    /\ calls = <<>>

\* POST /config
UpdateConfig ==
    \E body \in InkyDicts :
        /\ settings' = update_config(body, settings).db
        /\ last' = [Called("update_config", <<>>, BaseEnv) EXCEPT
                       !.arg = <<body>>, !.resp = <<update_config(body, settings).resp>>]
        /\ UNCHANGED <<folder, clock, instances, calls>>

\* POST /config/sync
SyncConfig ==
    \E file \in ConfigFiles :
        /\ settings' = sync_config(settings, file).db
        /\ last' = [Called("sync_config", <<>>, BaseEnv) EXCEPT
                       !.arg = <<file>>, !.resp = <<sync_config(settings, file).resp>>]
        /\ UNCHANGED <<folder, clock, instances, calls>>

\* the application starts again on the table it left: Database()
StartUp ==
    \E file \in ConfigFiles :
        /\ settings' = DatabaseInit(settings, file).db
        /\ last' = [Called("Database", <<>>, BaseEnv) EXCEPT
                       !.arg = <<file>>, !.conn = DatabaseInit(settings, file).raised]
        /\ UNCHANGED <<folder, clock, instances, calls>>

NextConfig ==
    \/ UpdateConfig
    \/ SyncConfig
    \/ StartUp

\* the registry is called before any instance exists
InitRegistry ==
    /\ settings = Store(Dict(None, None, None, None), sHomeFolder, sExtJpg)
    /\ folder \in {f \in InitialFolders : ~f.exists}
    /\ clock = 1
    /\ last = NoCall
    /\ instances = <<>>
    /\ calls = <<>>

\* get_provider(name); self records the instances alive before the call,
\* arg the object returned
RegistryGet ==
    \E name \in ProviderNames :
        /\ name \in PROVIDERS => Len(instances) < MaxInstances
        /\ instances' = Allocate(instances, name).heap
        /\ last' = [NoCall EXCEPT !.op = "get_provider", !.name = name,
                                  !.self = <<instances>>,
                                  !.arg = Allocate(instances, name).ref]
        /\ UNCHANGED <<settings, folder, clock, calls>>

\* a settings dictionary with another address and credential, a key the
\* provider does not know, and no skip_existing
sHttpsUrl == <<"h","t","t","p","s",":","/","/","x">>
kUnknown == <<"verify_ssl">>
OtherServer ==
    [k \in {<<"server_url">>, <<"api_key">>, kUnknown} |->
        IF k = <<"server_url">> THEN sHttpsUrl ELSE IF k = <<"api_key">> THEN sKey2 ELSE sFalseLower]
ConfigureInputs == RawConfigs \cup {OtherServer}

\* configure(raw) on one of the instances alive; arg records which, and raw
InstanceConfigure ==
    \E i \in 1..Len(instances), raw \in ConfigureInputs :
        /\ instances' = [instances EXCEPT ![i] = configure(@, raw)]
        /\ last' = [NoCall EXCEPT !.op = "configure", !.self = <<instances>>,
                                  !.arg = <<i, raw>>]
        /\ UNCHANGED <<settings, folder, clock, calls>>

\* test_connection() on one of the instances alive, which keeps the client
\* it built; again records the call made before this one
InstanceTestConnection ==
    \E i \in 1..Len(instances), env \in ConnEnvs :
        /\ instances' = [instances EXCEPT ![i] = test_connection(@, env).self]
        /\ last' = [Called("instance.test_connection", <<>>, env) EXCEPT
                       !.self = <<instances>>, !.arg = <<i>>,
                       !.conn = <<test_connection(instances[i], env)>>,
                       !.db0 = <<>>, !.dir0 = <<>>,
                       !.again = <<[last EXCEPT !.again = <<>>]>>]
        /\ UNCHANGED <<settings, folder, clock, calls>>

\* one provider object, held by a caller who configures and tests it
InitConfigure ==
    /\ settings = Store(Dict(None, None, None, None), sHomeFolder, sExtJpg)
    /\ folder \in {f \in InitialFolders : ~f.exists}
    /\ clock = 1
    /\ last = NoCall
    /\ instances = <<NewProvider>>
    /\ calls = <<>>

NextConfigure ==
    \/ InstanceConfigure
    \/ InstanceTestConnection

NextRegistry ==
    \/ RegistryGet
    \/ InstanceConfigure

NextStore ==
    \/ SetProviderSetting
    \/ SetProviderSettings
    \/ SetProviderLastSync

Next ==
    \/ RefreshProvider
    \/ ForceSyncProvider

\* the API keys a provider is given: none, the placeholder itself, a short
\* one, one of 12 characters, one of 13, and one of 15 with dots inside
sKey12 == <<"a","b","c","d","e","f","g","h","i","j","k","l">>
sKey13 == <<"a","b","c","d","e","f","g","h","i","j","k","l","m">>
sKey15 == <<"a","b","c","d","e","f","g","h",".",".",".","j","k","l","m">>
Secrets == {Empty, sMasked, <<"s","h","o","r","t">>, sKey12, sKey13, sKey15}

\* a caller of the provider contract: get_config() on a provider
ProviderGetConfig ==
    /\ Idle
    /\ \E p \in Providers \cup {configure(NewProvider, Dict(sUrl, k, sAlbum, None)) :
                                  k \in Secrets} :
          /\ last' = [Called("get_config", <<>>, BaseEnv) EXCEPT
                         !.self = <<p>>, !.resp = <<get_config(p)>>]
          /\ UNCHANGED <<settings, folder, clock, instances, calls>>

\* the addresses and credentials validate_config meets
sSlash == <<"/">>
Addresses == {None, Empty, sSlash, sFtpUrl, sUrl, sHttpsUrl, sHttp}

\* a caller of the provider contract: validate_config() on a provider
ProviderValidateConfig ==
    /\ Idle
    /\ \E p \in Providers \cup {configure(NewProvider, Dict(url, key, None, None)) :
                                  url \in Addresses, key \in {None, Empty, sKey}} :
          /\ last' = [Called("validate_config", <<>>, BaseEnv) EXCEPT
                         !.self = <<p>>, !.resp = <<validate_config(p)>>]
          /\ UNCHANGED <<settings, folder, clock, instances, calls>>

\* the i-th of a list of distinct assets without originalFileName
ManyAsset(i) == [id |-> <<LowerChars[i]>>, has_name |-> FALSE, originalFileName |-> Empty]
ManyAssets(n) == [i \in 1..n |-> ManyAsset(i)]

\* a caller of the provider contract: refresh on a folder yet to be made,
\* the server listing n distinct assets, any of the downloads raising
ProviderRefreshMany ==
    /\ Idle
    /\ ~folder.exists
    /\ \E n \in 1..MaxManyAssets :
          \E t \in SUBSET (1..n) :
             LET env == [BaseEnv EXCEPT !.assets = ManyAssets(n), !.throws = t]
                 p == configure(NewProvider, Dict(sUrl, sKey, Empty, sTrue))
                 r == refresh(p, folder, env)
             IN  /\ folder' = r.dir
                 /\ last' = [Called("refresh", <<>>, env) EXCEPT !.self = <<p>>,
                                                                 !.at_refresh = <<folder>>,
                                                                 !.out = <<r>>]
                 /\ UNCHANGED <<settings, clock, instances, calls>>

\* the caller whose refresh ran its loop calls refresh once more on the same
\* provider and folder, the server listing the same assets; again records
\* the folder it found, the downloads set to raise and what it handed back
ProviderRefreshAgain ==
    /\ last.op = "refresh"
    /\ last.again = <<>>
    /\ last.out[1].assets # <<>>
    /\ \E env \in {e \in Envs : e.assets = last.out[1].assets} :
          LET r == refresh(last.out[1].self, folder, env) IN
          /\ folder' = r.dir
          /\ last' = [last EXCEPT !.again = <<[dir0 |-> folder, throws |-> env.throws,
                                               out |-> r]>>]
          /\ UNCHANGED <<settings, clock, instances, calls>>

NextContract ==
    \/ ProviderRefresh
    \/ ProviderTestConnection
    \/ ProviderRefreshAgain
    \/ ProviderGetConfig
    \/ ProviderValidateConfig
    \/ ProviderRefreshMany

\* the boundary: refresh and force-sync on the stored configuration
Spec == Init /\ [][Next]_vars

\* the provider contract, called directly
SpecContract == InitContract /\ [][NextContract]_vars

\* the boundary: every provider-scoped operation
SpecApi == Init /\ [][NextApi]_vars

\* the slideshow settings: updates, config.ini syncs and start-ups
SpecConfig == InitConfig /\ [][NextConfig]_vars

\* the registry and the instances it hands out
(***************************************************************************)
(* Requests that overlap in time.  The endpoints are plain functions,      *)
(* which the server runs on worker threads; nothing in api.py or           *)
(* immich.py serialises two requests, and Database._lock covers one        *)
(* get_setting / set_setting / get_all_settings at a time.  A request      *)
(* advances by the steps below, any step of another request in between.    *)
(***************************************************************************)
\* the requests in flight: two standard refreshes and a configuration update
Requests == {"refresh-1", "refresh-2", "update"}
OpOf(r) == IF r = "update" THEN "update_provider_config" ELSE "refresh_provider"

\* the counters of the loop of refresh, local to a request
NoProgress == [downloaded |-> 0, skipped |-> 0, failed |-> 0, errors |-> <<>>, log |-> <<>>]
Local(st) ==
    [downloaded |-> st.downloaded, skipped |-> st.skipped, failed |-> st.failed,
     errors |-> st.errors, log |-> st.log]
OnFolder(loc, entries) ==
    [entries |-> entries, downloaded |-> loc.downloaded, skipped |-> loc.skipped,
     failed |-> loc.failed, errors |-> loc.errors, log |-> loc.log]

\* a request not yet received; env is what the server answers
NotStarted(r, env) ==
    [op |-> OpOf(r), pc |-> "idle", self |-> NewProvider, env |-> env, assets |-> <<>>,
     i |-> 0, st |-> NoProgress, absent |-> {}, merged |-> <<>>, result |-> <<>>,
     stored_at |-> 0, resp |-> <<>>]

\* the server lists any assets; its first download may fail
OverlapEnvs ==
    {[BaseEnv EXCEPT !.assets = a, !.throws = t] :
        a \in AssetLists, t \in {{}, {1}}}

\* the bodies of the update: a new credential, and an address that
\* validate_config rejects
OverlapBodies == {Dict(None, sKey2, None, None), Dict(sFtpUrl, None, None, None)}

\* a valid stored configuration with skip_existing on, with or without the
\* record of an earlier sync; the folder absent, or holding b.txt or not
InitOverlap ==
    /\ \E old \in BOOLEAN :
          settings = IF old
                     THEN set_provider_last_sync(
                             Store(Dict(sUrl, sKey, Empty, sTrue), sHomeFolder, sExtJpg),
                             Immich, to_dict(OldResult), 0)
                     ELSE Store(Dict(sUrl, sKey, Empty, sTrue), sHomeFolder, sExtJpg)
    /\ folder \in {f \in InitialFolders : DOMAIN f.entries \subseteq {fSubdir, fTxt}}
    /\ clock = 1
    /\ last = NoCall
    /\ instances = <<>>
    /\ \E env \in OverlapEnvs : calls = [r \in Requests |-> NotStarted(r, env)]

\* the position of the loop after assets[i]: the next asset, or the end
Advance(c) ==
    [c EXCEPT !.i = @ + 1, !.pc = IF c.i + 1 > Len(c.assets) THEN "store" ELSE "check"]

\* api.py refresh_provider, lines 228-251, and refresh, lines 126-174: the
\* request loads and validates the configuration, makes the folder and lists
\* the assets; with nothing to loop over it ends here, as refresh_provider
\* ends
BeginRefresh ==
    \E r \in Requests :
        /\ calls[r].op = "refresh_provider"
        /\ calls[r].pc = "idle"
        /\ LET env == calls[r].env
               whole == refresh_provider(Immich, settings, folder, clock, env)
               early == \/ whole.out = <<>>
                        \/ whole.out[1].raised # <<>>
                        \/ whole.out[1].assets = <<>>
               p == configure(get_provider(Immich)[1],
                              get_provider_settings(settings, Immich))
               c == get_client(p, env)
               a == get_assets(c.self, env)
           IN  IF early
               THEN /\ settings' = whole.db
                    /\ folder' = whole.dir
                    /\ clock' = whole.now
                    /\ calls' = [calls EXCEPT ![r].pc = "done",
                                              ![r].resp = <<whole.resp>>,
                                              ![r].stored_at =
                                                 IF whole.now > clock THEN clock ELSE 0,
                                              ![r].result =
                                                 IF whole.out # <<>>
                                                 THEN whole.out[1].result ELSE <<>>]
               ELSE /\ folder' = [exists |-> TRUE, entries |-> folder.entries]
                    /\ calls' = [calls EXCEPT ![r].pc = "check", ![r].self = c.self,
                                              ![r].assets = a.assets, ![r].i = 1]
                    /\ UNCHANGED <<settings, clock>>
        /\ UNCHANGED <<last, instances>>

\* refresh, lines 177-184: the skip test for assets[i]
CheckExists ==
    \E r \in Requests :
        /\ calls[r].pc = "check"
        /\ LET c == calls[r]
               asset == c.assets[c.i]
               skip_existing == Get(c.self._config, "skip_existing", TRUE)
           IN  calls' =
                 [calls EXCEPT ![r] =
                    IF skip_existing /\ PathExists(folder.entries, AssetFilename(asset))
                    THEN Advance([c EXCEPT !.st =
                             Local(process_asset(OnFolder(c.st, folder.entries),
                                                 asset, c.i, skip_existing, c.env))])
                    ELSE [c EXCEPT !.pc = "download", !.absent = @ \cup {c.i}]]
        /\ UNCHANGED <<settings, folder, clock, last, instances>>

\* refresh, lines 186-191: the download of assets[i]
DownloadAsset ==
    \E r \in Requests :
        /\ calls[r].pc = "download"
        /\ LET c == calls[r]
               nxt == download_step(OnFolder(c.st, folder.entries), c.assets[c.i],
                                    c.i, c.env)
           IN  /\ folder' = [folder EXCEPT !.entries = nxt.entries]
               /\ calls' = [calls EXCEPT ![r] = Advance([c EXCEPT !.st = Local(nxt)])]
        /\ UNCHANGED <<settings, clock, last, instances>>

\* refresh, lines 193-215, and refresh_provider, lines 254-260: the result
\* is built, stored as the last-sync record and returned
StoreResult ==
    \E r \in Requests :
        /\ calls[r].pc = "store"
        /\ LET result == loop_result(calls[r].st, calls[r].assets) IN
           /\ settings' = set_provider_last_sync(settings, Immich, to_dict(result), clock)
           /\ clock' = clock + 1
           /\ calls' = [calls EXCEPT ![r].pc = "done", ![r].result = <<result>>,
                                     ![r].stored_at = clock, ![r].resp = <<Ok(result)>>]
        /\ UNCHANGED <<folder, last, instances>>

\* update_provider_config, lines 181-191: the stored settings are read,
\* merged with the body and validated
ReadConfig ==
    \E r \in Requests, incoming \in OverlapBodies :
        /\ calls[r].op = "update_provider_config"
        /\ calls[r].pc = "idle"
        /\ LET existing == get_provider_settings(settings, Immich)
               merged == Merge(existing, incoming)
               v == validate_config(configure(get_provider(Immich)[1], merged))
           IN  calls' =
                 [calls EXCEPT ![r] =
                    IF ~v.valid
                    THEN [@ EXCEPT !.pc = "done",
                                   !.resp = <<HTTPException(400,
                                       Msg("Invalid configuration: {error}", v.error))>>]
                    ELSE [@ EXCEPT !.pc = "save", !.merged = <<merged>>]]
        /\ UNCHANGED <<settings, folder, clock, last, instances>>

\* update_provider_config, lines 194-196: the merged settings are saved
SaveConfig ==
    \E r \in Requests :
        /\ calls[r].pc = "save"
        /\ settings' = set_provider_settings(settings, Immich, calls[r].merged[1])
        /\ calls' = [calls EXCEPT ![r].pc = "done",
                                  ![r].resp = <<Reply([status |-> "ok"])>>]
        /\ UNCHANGED <<folder, clock, last, instances>>

NextOverlap ==
    \/ BeginRefresh
    \/ CheckExists
    \/ DownloadAsset
    \/ StoreResult
    \/ ReadConfig
    \/ SaveConfig

SpecOverlap == InitOverlap /\ [][NextOverlap]_vars
SpecConfigure == InitConfigure /\ [][NextConfigure]_vars
SpecRegistry == InitRegistry /\ [][NextRegistry]_vars

\* the provider section of the settings store, called directly
SpecStore == InitStore /\ [][NextStore]_vars

(***************************************************************************)
(* The claims.  Each speaks of the call recorded in last.                  *)
(***************************************************************************)
\* the call made was refresh() on a provider, and r is what it handed back
IsRefresh == last.op = "refresh"
RefreshOut == last.out[1]
CalledConfig == last.self[1]._config

IsLoopEvent(e) == e.ev \in {"skip", "download_asset"}
LoopEvents(log) == SelectSeq(log, IsLoopEvent)

\* the rules of validateConfig as the specification words them
ConfigInvalid(cfg) ==
    \/ Get(cfg, "server_url", Empty) = Empty
    \/ Get(cfg, "api_key", Empty) = Empty
    \/ ~(StartsWith(cfg.server_url, sHttp) \/ StartsWith(cfg.server_url, sHttps))

\* C1: when refresh runs its loop over a fetched asset list, it returns, every
\* asset of the list is processed exactly once and in list order (skipped,
\* downloaded or failed), also after a failed one, a download that raises is a
\* failure, and failed counts exactly the downloads that raised.
C1_FailureIsolation ==
    (IsRefresh /\ RefreshOut.assets # <<>>) =>
        LET ev == LoopEvents(RefreshOut.log)
            n == Len(RefreshOut.assets)
        IN  /\ RefreshOut.raised = <<>>
            /\ Len(ev) = n
            /\ \A i \in 1..n : ev[i].i = i
            /\ \A i \in 1..n : (i \in last.throws /\ ev[i].ev = "download_asset") => ~ev[i].ok
            /\ RefreshOut.result[1].failed =
                  Cardinality({i \in 1..n : ev[i].ev = "download_asset" /\ ~ev[i].ok})
            /\ RefreshOut.result[1].total = n

\* the first of two downloads raised and the second was still made
C1_Witness ==
    /\ IsRefresh
    /\ Len(RefreshOut.assets) = 2
    /\ last.throws = {1}
    /\ RefreshOut.result # <<>>
    /\ RefreshOut.result[1].failed = 1
    /\ RefreshOut.result[1].downloaded = 1

\* the status table of the specification
TableStatus(total, downloaded, failed) ==
    IF total = 0 THEN NO_IMAGES
    ELSE IF failed = 0 THEN SUCCESS
    ELSE IF downloaded > 0 THEN PARTIAL
    ELSE FAILED

HasTableStatus(result) ==
    result.status = TableStatus(result.total, result.downloaded, result.failed)

\* refresh left before it had an asset list: the configuration was invalid,
\* the client library was missing, or the listing failed
ListingFailed(log) ==
    \E j \in 1..Len(log) :
        /\ log[j].ev \in {"find_album", "get_album", "list_assets", "raise ValueError"}
        /\ ~log[j].ok
ImportFailed(log) == \E j \in 1..Len(log) : log[j].ev = "import immich_lib" /\ ~log[j].ok
EarlyExit == ConfigInvalid(CalledConfig) \/ ImportFailed(RefreshOut.log)
             \/ ListingFailed(RefreshOut.log)

\* C2 as claimed: every RefreshResult refresh returns, the early exits
\* included, has the status the table assigns to its counters.
C2_StatusTableOnEveryPath ==
    (IsRefresh /\ RefreshOut.result # <<>>) => HasTableStatus(RefreshOut.result[1])

\* C2 amended: a RefreshResult returned once the asset list is in hand has the
\* status the table assigns to its counters; the early exits (invalid
\* configuration, missing client library, failed listing) return status
\* failed with all four counters 0.
C2_StatusTableAfterListing ==
    (IsRefresh /\ RefreshOut.result # <<>>) =>
        LET res == RefreshOut.result[1] IN
        IF EarlyExit
        THEN /\ res.status = FAILED
             /\ res.total = 0 /\ res.downloaded = 0 /\ res.skipped = 0 /\ res.failed = 0
        ELSE HasTableStatus(res)

\* a loop that ended partial: one download made, one failed
C2_Witness ==
    /\ IsRefresh
    /\ RefreshOut.result # <<>>
    /\ ~EarlyExit
    /\ RefreshOut.result[1].status = PARTIAL
    /\ RefreshOut.result[1].downloaded = 1
    /\ RefreshOut.result[1].failed = 1

\* C8: refresh on a configuration that fails validateConfig returns a failed
\* RefreshResult carrying the configuration error, with no traffic at all (no
\* client, no listing, no download, no makedirs) and the folder as it was.
C8_InvalidConfigShortCircuits ==
    (IsRefresh /\ ConfigInvalid(CalledConfig)) =>
        /\ RefreshOut.raised = <<>>
        /\ RefreshOut.result # <<>>
        /\ RefreshOut.result[1].status = FAILED
        /\ RefreshOut.result[1].message.fmt = "Configuration error: {error}"
        /\ RefreshOut.log = <<>>
        /\ RefreshOut.self._client = NoClient
        /\ folder = last.dir0[1]

\* refresh on a configuration with a bad scheme, the folder absent before
\* and after
C8_Witness ==
    /\ IsRefresh
    /\ Get(CalledConfig, "server_url", Empty) = sFtpUrl
    /\ ~last.dir0[1].exists
    /\ ~folder.exists
    /\ RefreshOut.result # <<>>

\* C9 as claimed: whatever fails, refresh ends in a returned RefreshResult.
C9_RefreshNeverRaises ==
    IsRefresh => (RefreshOut.raised = <<>> /\ RefreshOut.result # <<>>)

\* the call made was test_connection() on a provider
IsTestConnection == last.op = "test_connection"
ConnOut == last.conn[1]

\* C10: test_connection never raises; on an invalid configuration it returns
\* (false, configuration error) without any traffic; it returns true only
\* when check_auth was called and answered with a truthy value.
C10_TestConnection ==
    IsTestConnection =>
        /\ ConnOut.raised = <<>>
        /\ ConfigInvalid(CalledConfig) =>
              /\ ~ConnOut.success
              /\ ConnOut.message.fmt = "Configuration error: {error}"
              /\ ConnOut.log = <<>>
        /\ ConnOut.success =>
              /\ last.auth = "truthy"
              /\ ConnOut.log # <<>>
              /\ ConnOut.log[Len(ConnOut.log)] = Event("check_auth", 0, TRUE)
        /\ (~ConfigInvalid(CalledConfig) /\ last.auth # "truthy") => ~ConnOut.success

\* a valid configuration whose check_auth answers with a falsy value
C10_Witness ==
    /\ IsTestConnection
    /\ ~ConfigInvalid(CalledConfig)
    /\ last.auth = "falsy"
    /\ ~ConnOut.success
    /\ ConnOut.message.fmt = "Authentication failed - check your API key"

\* the call made was a standard refresh or a force-sync of a registered
\* provider
IsBoundaryCall ==
    last.op \in {"refresh_provider", "force_sync_provider"} /\ last.name \in PROVIDERS
IsForceSync == last.op = "force_sync_provider" /\ last.name \in PROVIDERS
Resp == last.resp[1]
StoredRecord == get_provider_last_sync(settings, last.name)

\* the stored record is result, stamped at the time of the call
IsRecordOf(rec, result, now) ==
    /\ rec.status = result.status
    /\ rec.message = result.message
    /\ rec.downloaded = result.downloaded
    /\ rec.skipped = result.skipped
    /\ rec.failed = result.failed
    /\ rec.total = result.total
    /\ rec.errors = result.errors
    /\ rec.timestamp = Timestamp(now)

\* C3 as claimed: every standard-refresh or force-sync call on a registered
\* provider leaves a last-sync record written by that call.
C3_EveryCallPersists ==
    IsBoundaryCall =>
        /\ StoredRecord # <<>>
        /\ StoredRecord[1].timestamp = Timestamp(last.now0)

\* C3 amended: a call that gets a RefreshResult from refresh, failed or not,
\* answers with it and stores it, stamped, as the provider's last-sync
\* record in place of any earlier one, changing no other setting; a call that
\* ends in a caller-facing error (configuration rejected, or an exception
\* leaving refresh) leaves the settings, the earlier record included, as they
\* were.
C3_ResultPersistedElseUntouched ==
    IsBoundaryCall =>
        IF last.out # <<>> /\ last.out[1].result # <<>>
        THEN /\ Resp.code = 200
             /\ Resp.result = <<to_dict(last.out[1].result[1])>>
             /\ StoredRecord # <<>>
             /\ IsRecordOf(StoredRecord[1], last.out[1].result[1], last.now0)
             /\ DOMAIN settings = DOMAIN last.db0[1] \cup {LastSyncKey(last.name)}
             /\ \A k \in DOMAIN last.db0[1] :
                   k # LastSyncKey(last.name) => settings[k] = last.db0[1][k]
        ELSE /\ Resp.code # 200
             /\ Resp.result = <<>>
             /\ settings = last.db0[1]

\* a failed RefreshResult took the place of the record of an earlier attempt
C3_Witness ==
    /\ IsBoundaryCall
    /\ get_provider_last_sync(last.db0[1], last.name) # <<>>
    /\ get_provider_last_sync(last.db0[1], last.name)[1].timestamp = Timestamp(0)
    /\ last.out # <<>> /\ last.out[1].result # <<>>
    /\ last.out[1].result[1].status = FAILED
    /\ StoredRecord[1].status = FAILED
    /\ StoredRecord[1].timestamp = Timestamp(last.now0)

\* the settings force-sync read, and the folder it found
ExtSetting == get_setting(last.db0[1], kImageExtensions, ImageExtensionsDefault)
FolderSetting == get_setting(last.db0[1], kDefaultFolder, DefaultFolderDefault)
Dir0 == last.dir0[1]
RegularFiles(dir) == {n \in DOMAIN dir.entries : dir.entries[n] # "dir"}

\* the deletion phase of force-sync ran: refresh was reached, and the folder
\* existed under a resolved path of more than 5 characters
ReconciliationRan ==
    /\ IsForceSync
    /\ last.at_refresh # <<>>
    /\ Dir0.exists
    /\ Len(expanduser(FolderSetting)) > 5

\* the extension of name is, case aside, one of the comma-separated entries
\* of the image_extensions setting
Recognized(name, ext_str) ==
    \E k \in 1..Len(Split(ext_str, ",")) :
        Lower(Strip(Split(ext_str, ",")[k])) = Lower(SplitExt(name))

\* C4: the reconciliation step deletes exactly the regular files, direct
\* children of the target folder, whose extension is recognised case aside;
\* refresh is invoked on the folder with those gone and every other file and
\* every subdirectory as it was.
C4_ReconciliationDeletesRecognized ==
    ReconciliationRan =>
        /\ last.removed = {n \in RegularFiles(Dir0) : Recognized(n, ExtSetting)}
        /\ last.at_refresh[1].exists
        /\ DOMAIN last.at_refresh[1].entries = DOMAIN Dir0.entries \ last.removed
        /\ \A n \in DOMAIN Dir0.entries \ last.removed :
              last.at_refresh[1].entries[n] = Dir0.entries[n]

\* with ".jpg" recognised, B.JPG went and b.txt, README and the subdirectory
\* d.jpg stayed
C4_Witness ==
    /\ ReconciliationRan
    /\ ExtSetting = sExtJpg
    /\ DOMAIN Dir0.entries = {fUpperJpg, fTxt, fReadme, fSubdir}
    /\ last.removed = {fUpperJpg}
    /\ DOMAIN last.at_refresh[1].entries = {fTxt, fReadme, fSubdir}

\* C5 as claimed: with image_extensions the empty string, the deletion phase
\* removes every regular file of the target folder.
C5_EmptySettingMatchesEverything ==
    (ReconciliationRan /\ ExtSetting = Empty) => last.removed = RegularFiles(Dir0)

\* C6 as claimed: a force-sync that returns a result has skipped = 0 and has
\* attempted the download of every asset of the list.
C6_ForceSyncSkipsNothing ==
    (IsForceSync /\ last.out # <<>> /\ last.out[1].result # <<>>) =>
        /\ last.out[1].result[1].skipped = 0
        /\ \A i \in 1..Len(last.out[1].assets) :
              \E j \in 1..Len(last.out[1].log) :
                  last.out[1].log[j].ev = "download_asset" /\ last.out[1].log[j].i = i

\* the configuration the call loaded from the store
StoredConfig ==
    configure(NewProvider, get_provider_settings(last.db0[1], last.name))._config

\* C7 as claimed: on a stored configuration that fails validateConfig,
\* force-sync answers as standard refresh does (the same failure, with the
\* validation message), deletes nothing, never invokes refresh and stores
\* nothing.
C7_ForceSyncRejectsLikeRefresh ==
    (IsForceSync /\ ConfigInvalid(StoredConfig)) =>
        LET std == refresh_provider(last.name, last.db0[1], Dir0, last.now0, BaseEnv).resp
        IN  /\ Resp.code = std.code
            /\ Resp.detail.fmt = std.detail.fmt
            /\ Resp.detail.arg = std.detail.arg
            /\ last.removed = {}
            /\ last.at_refresh = <<>>
            /\ settings = last.db0[1]
            /\ folder = Dir0

\* the call made was a standard refresh that reached refresh()
IsStdRefresh == last.op = "refresh_provider" /\ last.out # <<>>

\* C11: standard refresh never removes a file of the target folder (it
\* invokes refresh on the folder as found and every name present before is
\* present after); with skip-existing enabled it issues no download for a
\* destination that exists when its asset is reached (present before the
\* call, or written by an earlier download of the call), and every entry
\* present before the call is unchanged after it.
C11_RefreshNonDestructive ==
    IsStdRefresh =>
        LET r == last.out[1]
            IsDownload(j) == r.log[j].ev = "download_asset"
            Dest(j) == AssetFilename(r.assets[r.log[j].i])
        IN  /\ last.removed = {}
            /\ last.at_refresh = <<Dir0>>
            /\ DOMAIN Dir0.entries \subseteq DOMAIN folder.entries
            /\ StoredConfig.skip_existing =>
                  /\ \A n \in DOMAIN Dir0.entries : folder.entries[n] = Dir0.entries[n]
                  /\ \A j \in 1..Len(r.log) : IsDownload(j) =>
                        /\ Dest(j) \notin DOMAIN Dir0.entries
                        /\ \A k \in 1..(j - 1) :
                              (IsDownload(k) /\ r.log[k].ok) => Dest(k) # Dest(j)

\* with skip-existing enabled and b.txt in the folder, the asset named b.txt
\* was skipped, the other one downloaded, and b.txt is the file it was
C11_Witness ==
    /\ IsStdRefresh
    /\ StoredConfig.skip_existing
    /\ fTxt \in DOMAIN Dir0.entries
    /\ last.out[1].assets = <<Asset1, Asset2>>
    /\ last.out[1].result # <<>>
    /\ last.out[1].result[1].skipped = 1
    /\ last.out[1].result[1].downloaded = 1
    /\ folder.entries[fTxt] = "old"
    /\ folder.entries[AssetFilename(Asset2)] = "new"

\* the destination of every asset of the list existed before the call
AllPresent(assets, dir) ==
    \A i \in 1..Len(assets) : AssetFilename(assets[i]) \in DOMAIN dir.entries

\* C12: refresh with skip-existing enabled, a non-empty asset list and a
\* destination file present for every asset returns downloaded = 0,
\* skipped = total, failed = 0 and status success, without a download call.
C12_AllPresentAllSkipped ==
    (/\ IsRefresh
     /\ RefreshOut.assets # <<>>
     /\ CalledConfig.skip_existing
     /\ AllPresent(RefreshOut.assets, last.dir0[1])) =>
        /\ RefreshOut.result # <<>>
        /\ RefreshOut.result[1].downloaded = 0
        /\ RefreshOut.result[1].skipped = Len(RefreshOut.assets)
        /\ RefreshOut.result[1].total = Len(RefreshOut.assets)
        /\ RefreshOut.result[1].failed = 0
        /\ RefreshOut.result[1].status = SUCCESS
        /\ \A j \in 1..Len(RefreshOut.log) : RefreshOut.log[j].ev # "download_asset"
        /\ folder = last.dir0[1]

\* two assets, both with their file in the folder, the library set to fail
\* every download: both skipped, success
C12_Witness ==
    /\ IsRefresh
    /\ Len(RefreshOut.assets) = 2
    /\ CalledConfig.skip_existing
    /\ AllPresent(RefreshOut.assets, last.dir0[1])
    /\ last.throws = {1, 2}
    /\ RefreshOut.result # <<>>
    /\ RefreshOut.result[1].skipped = 2
    /\ RefreshOut.result[1].status = SUCCESS

\* refresh was called a second time, and what the two calls handed back
IsRefreshAgain == last.op = "refresh" /\ last.again # <<>>
FirstOut == last.out[1]
SecondOut == last.again[1].out

\* C13: under skip-existing, after a refresh in which no download failed, an
\* immediately following refresh over the same asset list and folder returns
\* downloaded = 0, failed = 0 and skipped = total, makes no download call
\* and leaves the folder as the first call left it.
C13_RefreshIdempotent ==
    (/\ IsRefreshAgain
     /\ CalledConfig.skip_existing
     /\ FirstOut.result # <<>>
     /\ FirstOut.result[1].failed = 0) =>
        /\ SecondOut.raised = <<>>
        /\ SecondOut.result # <<>>
        /\ SecondOut.result[1].downloaded = 0
        /\ SecondOut.result[1].failed = 0
        /\ SecondOut.result[1].skipped = Len(FirstOut.assets)
        /\ SecondOut.result[1].total = Len(FirstOut.assets)
        /\ \A j \in 1..Len(SecondOut.log) : SecondOut.log[j].ev # "download_asset"
        /\ folder = last.again[1].dir0

\* the first call downloaded both assets; the second, with the library set
\* to fail every download, skipped both
C13_Witness ==
    /\ IsRefreshAgain
    /\ CalledConfig.skip_existing
    /\ FirstOut.assets = <<Asset1, Asset2>>
    /\ FirstOut.result # <<>>
    /\ FirstOut.result[1].downloaded = 2
    /\ last.again[1].throws = {1, 2}
    /\ SecondOut.result # <<>>
    /\ SecondOut.result[1].skipped = 2

\* the call made got a RefreshResult from refresh
GotResult == IsBoundaryCall /\ last.out # <<>> /\ last.out[1].result # <<>>
TheResult == last.out[1].result[1]

\* C14: after a standard refresh or force-sync has returned a RefreshResult,
\* getProviderLastSync for that provider returns a record with the seven
\* fields of that result, each with the value the caller was answered, plus
\* a timestamp, and no other field.
C14_LastSyncIsTheResult ==
    GotResult =>
        /\ StoredRecord # <<>>
        /\ DOMAIN StoredRecord[1] =
              {"status", "message", "downloaded", "skipped", "failed", "total",
               "errors", "timestamp"}
        /\ StoredRecord[1].status = TheResult.status
        /\ StoredRecord[1].message = TheResult.message
        /\ StoredRecord[1].downloaded = TheResult.downloaded
        /\ StoredRecord[1].skipped = TheResult.skipped
        /\ StoredRecord[1].failed = TheResult.failed
        /\ StoredRecord[1].total = TheResult.total
        /\ StoredRecord[1].errors = TheResult.errors
        /\ StoredRecord[1].timestamp = Timestamp(last.now0)
        /\ \A k \in DOMAIN Resp.result[1] : StoredRecord[1][k] = Resp.result[1][k]

\* two assets, the second download raising: downloaded = 1, failed = 1,
\* skipped = 0, total = 2, partial, one error message, and that is the record
C14_Witness ==
    /\ GotResult
    /\ Len(last.out[1].assets) = 2
    /\ last.throws = {2}
    /\ TheResult.status = PARTIAL
    /\ TheResult.downloaded = 1 /\ TheResult.failed = 1 /\ TheResult.skipped = 0
    /\ Len(TheResult.errors) = 1
    /\ StoredRecord # <<>>
    /\ StoredRecord[1].status = PARTIAL
    /\ Len(StoredRecord[1].errors) = 1

\* the call made wrote provider settings or a sync record to the store
IsStoreWrite ==
    last.op \in {"set_provider_setting", "set_provider_settings", "set_provider_last_sync"}

\* the keys of the settings table the call wrote for its provider
WrittenKeys ==
    IF last.op = "set_provider_last_sync" THEN {LastSyncKey(last.name)}
    ELSE {ProviderPrefix(last.name) \o key : key \in DOMAIN last.arg[1]}

\* C15 as claimed: a write of settings or of a sync record for provider p
\* changes neither getProviderSettings(q) nor getProviderLastSync(q) for
\* any other provider name q, and nothing it stored shows up in
\* getProviderSettings(q).
C15_ProvidersNeverCollide ==
    IsStoreWrite =>
        \A q \in StoreNames \ {last.name} :
            /\ get_provider_settings(settings, q) = get_provider_settings(last.db0[1], q)
            /\ get_provider_last_sync(settings, q) = get_provider_last_sync(last.db0[1], q)
            /\ \A k \in WrittenKeys : ~KeyStartsWith(k, ProviderPrefix(q))

\* the call made was a configuration update, with its request body
IsUpdate == last.op = "update_provider_config"
Body == last.arg[1]
Db0 == last.db0[1]

\* C16: after a successful configuration update with key set K, every key
\* of K holds the incoming value, every setting stored before under a key
\* outside K keeps its value, and no stored key is removed.
C16_PartialUpdate ==
    (IsUpdate /\ Resp.code = 200) =>
        /\ \A key \in DOMAIN Body :
              /\ ProviderPrefix(last.name) \o key \in DOMAIN settings
              /\ settings[ProviderPrefix(last.name) \o key] = Body[key]
        /\ DOMAIN Db0 \subseteq DOMAIN settings
        /\ \A k \in DOMAIN Db0 :
              (\A key \in DOMAIN Body : k # ProviderPrefix(last.name) \o key) =>
                  settings[k] = Db0[k]
        /\ \A key \in DOMAIN get_provider_settings(Db0, last.name) \ DOMAIN Body :
              get_provider_settings(settings, last.name)[key] =
                 get_provider_settings(Db0, last.name)[key]

\* the stored address, album and sync record stayed when only the API key
\* was sent
C16_Witness ==
    /\ IsUpdate
    /\ Resp.code = 200
    /\ Body = Dict(None, sKey2, None, None)
    /\ {<<"server_url">>, <<"api_key">>, <<"album_name">>, <<"_last_sync">>}
          \subseteq DOMAIN get_provider_settings(Db0, last.name)
    /\ get_provider_settings(Db0, last.name)[<<"api_key">>] = sKey
    /\ get_provider_settings(Db0, last.name)[<<"album_name">>] = sAlbum
    /\ get_provider_last_sync(Db0, last.name) # <<>>
    /\ get_provider_settings(settings, last.name)[<<"api_key">>] = sKey2
    /\ get_provider_settings(settings, last.name)[<<"album_name">>] = sAlbum
    /\ get_provider_settings(settings, last.name)[<<"server_url">>] = sUrl
    /\ get_provider_last_sync(settings, last.name) = get_provider_last_sync(Db0, last.name)

\* the provider-scoped operations of the boundary
ProviderOps ==
    {"get_provider_info", "get_provider_config", "update_provider_config",
     "test_provider_connection", "refresh_provider", "force_sync_provider",
     "get_provider_status", "fetch_provider_albums"}

\* C17 as claimed: every provider-scoped operation called with an
\* unregistered name ends in the not-found outcome and changes neither the
\* settings store nor the target folder.
C17_UnregisteredIsNotFound ==
    (last.op \in ProviderOps /\ last.name \notin PROVIDERS) =>
        /\ Resp.code = 404
        /\ settings = Db0
        /\ folder = Dir0

\* the instances alive before the call recorded in last
Before == last.self[1]

\* C18: get on a registered name returns an object that is none of the
\* instances alive, in the state of a new provider whatever the others were
\* configured with, and leaves the others as they were; configuring one
\* instance changes no other instance; get on an unregistered name returns
\* None and creates nothing.
C18_RegistryFreshInstances ==
    /\ (last.op = "get_provider" /\ last.name \in PROVIDERS) =>
          /\ last.arg # <<>>
          /\ last.arg[1] \notin 1..Len(Before)
          /\ last.arg[1] \in 1..Len(instances)
          /\ instances[last.arg[1]] = NewProvider
          /\ \A j \in 1..Len(Before) : instances[j] = Before[j]
    /\ (last.op = "get_provider" /\ last.name \notin PROVIDERS) =>
          /\ last.arg = <<>>
          /\ instances = Before
    /\ last.op = "configure" =>
          /\ Len(instances) = Len(Before)
          /\ \A j \in 1..Len(Before) : j # last.arg[1] => instances[j] = Before[j]

\* a second instance handed out after the first was configured holds no
\* configuration
C18_Witness ==
    /\ last.op = "get_provider"
    /\ Len(Before) = 1
    /\ Before[1]._config # <<>>
    /\ Before[1]._config.server_url = sUrl
    /\ last.arg = <<2>>
    /\ instances[2]._config = <<>>
    /\ instances[1] = Before[1]

\* the call made was get_config() on a provider holding a configuration
IsGetConfig == last.op = "get_config" /\ CalledConfig # <<>>
HeldSecret == CalledConfig.api_key
Shown == Resp.api_key
FirstAndLast(key) == SubSeq(key, 1, 8) \o sEllipsis \o SubSeq(key, Len(key) - 3, Len(key))

\* C19 as claimed: a secret longer than 12 characters is shown as its first
\* 8 characters, an ellipsis and its last 4; every secret of length 0 to 12
\* is shown as the fixed placeholder; the value shown never equals the
\* secret.
C19_EverySecretMasked ==
    IsGetConfig =>
        /\ Len(HeldSecret) > 12 => Shown = FirstAndLast(HeldSecret)
        /\ Len(HeldSecret) <= 12 => Shown = sMasked
        /\ Shown # HeldSecret

\* C19 amended: a secret longer than 12 characters is shown as its first 8
\* characters, an ellipsis and its last 4; a secret of 1 to 12 characters is
\* shown as the fixed placeholder "****", whatever its characters; an empty
\* secret is shown empty; the value shown equals the secret only when the
\* secret is empty, is the placeholder itself, or has 15 characters with the
\* ellipsis as its 9th to 11th; every other field is shown as held.
C19_MaskingRule ==
    IsGetConfig =>
        /\ Len(HeldSecret) > 12 => Shown = FirstAndLast(HeldSecret)
        /\ Len(HeldSecret) \in 1..12 => Shown = sMasked
        /\ Len(HeldSecret) = 0 => Shown = Empty
        /\ Shown = HeldSecret <=>
              \/ HeldSecret = Empty
              \/ HeldSecret = sMasked
              \/ (Len(HeldSecret) = 15 /\ SubSeq(HeldSecret, 9, 11) = sEllipsis)
        /\ Resp.server_url = CalledConfig.server_url
        /\ Resp.album_name = CalledConfig.album_name
        /\ Resp.skip_existing = CalledConfig.skip_existing

\* the 13 characters "abcdefghijklm" are shown as "abcdefgh...jklm"
C19_Witness ==
    /\ IsGetConfig
    /\ HeldSecret = sKey13
    /\ Shown = <<"a","b","c","d","e","f","g","h",".",".",".","j","k","l","m">>

\* the call made was validate_config() on a provider
IsValidate == last.op = "validate_config"
HeldAddress == IF CalledConfig = <<>> THEN Empty ELSE CalledConfig.server_url
HeldCredential == IF CalledConfig = <<>> THEN Empty ELSE CalledConfig.api_key
BeginsWith(text, front) == \E n \in 0..Len(text) : SubSeq(text, 1, n) = front

\* C20: validateConfig answers with the message of the first failing rule
\* in the order address required, credential required, address scheme: an
\* empty address gives the address message whatever the credential; else an
\* empty credential gives the credential message; else an address without
\* http:// or https:// in front gives the scheme message; else (true, None).
C20_FirstFailingRuleWins ==
    IsValidate =>
        IF HeldAddress = Empty
        THEN Resp = [valid |-> FALSE, error |-> "Server URL is required"]
        ELSE IF HeldCredential = Empty
        THEN Resp = [valid |-> FALSE, error |-> "API Key is required"]
        ELSE IF ~BeginsWith(HeldAddress, sHttp) /\ ~BeginsWith(HeldAddress, sHttps)
        THEN Resp = [valid |-> FALSE,
                     error |-> "Server URL must start with http:// or https://"]
        ELSE Resp = [valid |-> TRUE, error |-> "None"]

\* a configuration without address and without credential names the address
C20_Witness ==
    /\ IsValidate
    /\ CalledConfig # <<>>
    /\ HeldAddress = Empty
    /\ HeldCredential = Empty
    /\ Resp.error = "Server URL is required"

\* the call made was the album-discovery helper on "immich"
IsAlbums == last.op = "fetch_provider_albums" /\ last.name = Immich
AlbumsLog == last.out[1].log
GivenAddress == RStrip(Get(Body, <<"server_url">>, Empty), "/")
GivenCredential == Get(Body, <<"api_key">>, Empty)
Listed(log) == \E j \in 1..Len(log) : log[j].ev = "list_albums"

\* C21: the album-discovery helper answers an empty address or an empty
\* credential with an error and no traffic at all (no client is made); it
\* answers a check_auth that raised or returned a falsy value with an error
\* and no list_albums call; list_albums is only ever called after check_auth
\* returned a truthy value; a returned list begins with the "(All Assets)"
\* entry of count 0.
C21_AlbumsFailClosed ==
    IsAlbums =>
        /\ (GivenAddress = Empty \/ GivenCredential = Empty) =>
              (Resp.code = 400 /\ AlbumsLog = <<>>)
        /\ (AlbumsLog # <<>> /\ last.auth # "truthy") =>
              (Resp.code # 200 /\ ~Listed(AlbumsLog))
        /\ \A j \in 1..Len(AlbumsLog) : AlbumsLog[j].ev = "list_albums" =>
              /\ last.auth = "truthy"
              /\ \E k \in 1..(j - 1) : AlbumsLog[k] = Event("check_auth", 0, TRUE)
        /\ Resp.code = 200 =>
              /\ Listed(AlbumsLog)
              /\ Resp.result[1].albums[1].name = "(All Assets)"
              /\ Resp.result[1].albums[1].count = 0
              /\ Resp.result[1].albums[1].id = ""

\* check_auth answered with a falsy value: 401, a client made, nothing listed
C21_Witness ==
    /\ IsAlbums
    /\ last.auth = "falsy"
    /\ Resp.code = 401
    /\ AlbumsLog = <<Event("ImmichClient", 0, TRUE), Event("check_auth", 0, TRUE)>>

\* the settings table holds enable_inky = true with a default_interval
\* below 30
InkyTooFast(db) ==
    /\ IsTrueText(Get(db, kEnableInky, sFalseCap))
    /\ ParseInt(Get(db, kDefaultInterval, s30)).ok
    /\ ParseInt(Get(db, kDefaultInterval, s30)).value < 30

\* C22 as claimed: after any sequence of updates, config-file syncs and
\* start-ups the settings table never holds enable_inky = true with a
\* default_interval below 30, and an update whose merged result would hold
\* both is answered with an error and writes nothing.
C22_InkyConstraint ==
    /\ ~InkyTooFast(settings)
    /\ (last.op = "update_config" /\ InkyTooFast(set_all(Db0, Body))) =>
          (Resp.code # 200 /\ settings = Db0)

\* the messages of the failed downloads of a log, in the order of the log
RECURSIVE FailureMessages(_, _)
FailureMessages(log, assets) ==
    IF log = <<>> THEN <<>>
    ELSE LET e == Head(log) IN
         (IF e.ev = "download_asset" /\ ~e.ok
          THEN <<Msg("Failed to download {filename}: {str(e)}", AssetFilename(assets[e.i]))>>
          ELSE <<>>)
         \o FailureMessages(Tail(log), assets)

\* C23: the error list of a RefreshResult holds at most 10 entries, the
\* messages of the first 10 failed assets in asset order; failed counts every
\* failed asset, so with more than 10 failures failed exceeds the length of
\* the error list.
C23_ErrorListCapped ==
    (IsRefresh /\ RefreshOut.result # <<>>) =>
        LET res == RefreshOut.result[1]
            all == FailureMessages(RefreshOut.log, RefreshOut.assets)
        IN  /\ Len(res.errors) <= 10
            /\ res.failed = Len(all)
            /\ Len(res.errors) = IF Len(all) <= 10 THEN Len(all) ELSE 10
            /\ \A k \in 1..Len(res.errors) : res.errors[k] = all[k]
            /\ res.failed > 10 => res.failed > Len(res.errors)

\* 11 downloads failed: failed = 11, 10 messages retained, the last one the
\* message of the 10th asset
C23_Witness ==
    /\ IsRefresh
    /\ RefreshOut.result # <<>>
    /\ RefreshOut.result[1].failed = 11
    /\ Len(RefreshOut.result[1].errors) = 10
    /\ RefreshOut.result[1].errors[10].arg = AssetFilename(ManyAsset(10))

\* force-sync got past validateConfig and its safety check refused: the
\* resolved path has 5 or fewer characters, or the folder does not exist
GateClosed ==
    /\ IsForceSync
    /\ ~ConfigInvalid(StoredConfig)
    /\ (Len(expanduser(FolderSetting)) <= 5 \/ ~Dir0.exists)

\* C24: when the resolved target folder path has 5 or fewer characters, or
\* the folder does not exist, force-sync deletes no file; it still runs
\* refresh against that folder, as found, and stores the result refresh
\* returns as the provider's last-sync record.
C24_SafetyGate ==
    GateClosed =>
        /\ last.removed = {}
        /\ last.at_refresh = <<Dir0>>
        /\ last.out # <<>>
        /\ DOMAIN Dir0.entries \subseteq DOMAIN folder.entries
        /\ last.out[1].result # <<>> =>
              /\ Resp.code = 200
              /\ StoredRecord # <<>>
              /\ IsRecordOf(StoredRecord[1], last.out[1].result[1], last.now0)

\* under the 4-character path "/img" the folder exists and holds B.JPG with
\* ".jpg" recognised: the file is still there and the result is stored
C24_Witness ==
    /\ GateClosed
    /\ Dir0.exists
    /\ FolderSetting = sShortFolder
    /\ ExtSetting = sExtJpg
    /\ fUpperJpg \in DOMAIN Dir0.entries
    /\ fUpperJpg \in DOMAIN folder.entries
    /\ last.out # <<>> /\ last.out[1].result # <<>>
    /\ StoredRecord # <<>>
    /\ StoredRecord[1].timestamp = Timestamp(last.now0)

\* the configuration a settings dictionary alone determines: its known
\* keys, the address without trailing "/", a missing key as the empty text
\* and a missing skip_existing as true
ValueOr(raw, key, default) == IF key \in DOMAIN raw THEN raw[key] ELSE default
HeldFrom(raw) ==
    [server_url |-> RStrip(ValueOr(raw, <<"server_url">>, Empty), "/"),
     api_key |-> ValueOr(raw, <<"api_key">>, Empty),
     album_name |-> ValueOr(raw, <<"album_name">>, Empty),
     skip_existing |-> IF <<"skip_existing">> \in DOMAIN raw
                       THEN Lower(raw[<<"skip_existing">>]) = sTrueLower
                       ELSE TRUE]

\* the call made was test_connection on the object that the call before it
\* configured
TestedAfterConfigure ==
    /\ last.op = "instance.test_connection"
    /\ last.again[1].op = "configure"
    /\ last.again[1].arg[1] = last.arg[1]

\* C25: configure replaces the held configuration entirely: after
\* configure(B), whatever was configured before, the held configuration is
\* the one B alone determines (unknown keys ignored, missing keys as empty
\* values and skip-existing = true) and no client is held; a client held is
\* always one built from the held address and credential, and the network
\* operation following configure(B) builds its client from B's.
C25_ConfigureReplaces ==
    /\ last.op = "configure" =>
          /\ instances[last.arg[1]]._config = HeldFrom(last.arg[2])
          /\ instances[last.arg[1]]._client = NoClient
    /\ \A i \in 1..Len(instances) :
          instances[i]._client # NoClient =>
             /\ instances[i]._client[1].server_url = instances[i]._config.server_url
             /\ instances[i]._client[1].api_key = instances[i]._config.api_key
    /\ (TestedAfterConfigure /\ ~ConfigInvalid(HeldFrom(last.again[1].arg[2]))) =>
          /\ last.conn[1].log # <<>>
          /\ last.conn[1].log[1].ev \in {"import immich_lib", "ImmichClient"}
          /\ last.conn[1].log[1].ok =>
                instances[last.arg[1]]._client =
                   <<[server_url |-> HeldFrom(last.again[1].arg[2]).server_url,
                      api_key |-> HeldFrom(last.again[1].arg[2]).api_key]>>

\* the object held a client of the first server when it was configured for
\* the other one; the connection test that followed built a client of the
\* other server
C25_Witness ==
    /\ TestedAfterConfigure
    /\ last.again[1].arg[2] = OtherServer
    /\ last.again[1].self[1][1]._client = <<[server_url |-> sUrl, api_key |-> sKey]>>
    /\ last.again[1].self[1][1]._config.album_name = sAlbum
    /\ instances[1]._config.album_name = Empty
    /\ instances[1]._config.skip_existing
    /\ instances[1]._client = <<[server_url |-> sHttpsUrl, api_key |-> sKey2]>>

\* the two refresh requests
Refreshes == {r \in DOMAIN calls : calls[r].op = "refresh_provider"}

\* the downloads of assets[i] a request has issued
DownloadsOf(c, i) ==
    {k \in 1..Len(c.st.log) : c.st.log[k].ev = "download_asset" /\ c.st.log[k].i = i}
Succeeded(c) ==
    {k \in 1..Len(c.st.log) : c.st.log[k].ev = "download_asset" /\ c.st.log[k].ok}

\* C26: nothing excludes two overlapping standard refreshes of one provider
\* and folder from each other: a request that found the destination of an
\* asset absent downloads the asset whatever another request has written
\* there since, and counts as downloaded every download it made; so two
\* requests can both find one file absent, both download it and both count
\* it.
C26_CheckThenDownload ==
    \A r \in Refreshes :
        LET c == calls[r] IN
        /\ \A i \in c.absent :
              (i < c.i \/ c.pc \in {"store", "done"}) => Cardinality(DownloadsOf(c, i)) = 1
        /\ c.st.downloaded = Cardinality(Succeeded(c))
        /\ (c.pc = "done" /\ c.assets # <<>>) =>
              c.result[1].downloaded = Cardinality(Succeeded(c))

\* both requests found the file of the first asset absent, the folder
\* holding no file, both downloaded it and both report downloaded = 1
C26_Witness ==
    /\ calls # <<>>
    /\ \A r \in Refreshes :
          /\ calls[r].pc = "done"
          /\ Len(calls[r].assets) = 1
          /\ calls[r].absent = {1}
          /\ calls[r].st.log[Len(calls[r].st.log)] = Event("download_asset", 1, TRUE)
          /\ calls[r].result[1].downloaded = 1
          /\ calls[r].result[1].skipped = 0
    /\ calls["refresh-1"].assets = calls["refresh-2"].assets
    /\ AssetFilename(calls["refresh-1"].assets[1]) \in DOMAIN folder.entries

\* C27: every RefreshResult that refresh builds from the download loop
\* (the asset list not empty) has downloaded + skipped + failed = total, and
\* total is the length of the asset list; every result of an early exit
\* (configuration rejected, client library missing, listing failed, nothing
\* listed) has the four counters 0.
C27_CountersAddUp ==
    (IsRefresh /\ RefreshOut.result # <<>>) =>
        LET res == RefreshOut.result[1] IN
        IF RefreshOut.assets # <<>>
        THEN /\ res.downloaded + res.skipped + res.failed = res.total
             /\ res.total = Len(RefreshOut.assets)
             /\ res.downloaded >= 0 /\ res.skipped >= 0 /\ res.failed >= 0
        ELSE /\ LoopEvents(RefreshOut.log) = <<>>
             /\ res.downloaded = 0 /\ res.skipped = 0
             /\ res.failed = 0 /\ res.total = 0

\* of two assets listed, one was skipped and the download of the other failed
C27_Witness ==
    /\ IsRefresh
    /\ RefreshOut.result # <<>>
    /\ Len(RefreshOut.assets) = 2
    /\ RefreshOut.result[1].skipped = 1
    /\ RefreshOut.result[1].failed = 1
    /\ RefreshOut.result[1].downloaded = 0
    /\ RefreshOut.result[1].total = 2

\* every request received has returned
AllReturned == calls # <<>> /\ \A r \in DOMAIN calls : calls[r].pc \in {"idle", "done"}

\* the refresh requests that stored a record, and the last of them to do so
Writers == {r \in Refreshes : calls[r].stored_at > 0}
IsLastWriter(r) == r \in Writers /\ \A q \in Writers : calls[q].stored_at <= calls[r].stored_at

\* C28 as claimed: a configuration update never changes the provider's
\* SyncRecord, also when it overlaps a refresh: once the requests have
\* returned, the stored record is the one the last refresh wrote (the record
\* of the earlier sync, stamped 0, or none, when no refresh wrote one).
C28_UpdateKeepsSyncRecord ==
    AllReturned =>
        LET rec == get_provider_last_sync(settings, Immich) IN
        IF Writers = {}
        THEN rec = <<>> \/ rec[1].timestamp = Timestamp(0)
        ELSE /\ rec # <<>>
             /\ \E r \in Writers :
                   /\ IsLastWriter(r)
                   /\ IsRecordOf(rec[1], calls[r].result[1], calls[r].stored_at)

\* the update was for a registered provider and the stored settings merged
\* with its body fail validateConfig
UpdateInvalid ==
    /\ IsUpdate
    /\ last.name \in PROVIDERS
    /\ ConfigInvalid(HeldFrom(Merge(get_provider_settings(Db0, last.name), Body)))

\* C29: a configuration update whose merged configuration fails
\* validateConfig is rejected with an invalid-configuration error (400) and
\* leaves the settings store as it was: no key of the update is written, and
\* later refresh and test-connection calls load the configuration stored
\* before and answer as they would have without the update.
C29_RejectedUpdateWritesNothing ==
    UpdateInvalid =>
        /\ Resp.code = 400
        /\ Resp.detail.fmt = "Invalid configuration: {error}"
        /\ settings = Db0
        /\ get_provider_settings(settings, last.name) = get_provider_settings(Db0, last.name)
        /\ \A env \in ConnEnvs :
              /\ test_provider_connection(last.name, settings, folder, clock, env).resp
                    = test_provider_connection(last.name, Db0, folder, clock, env).resp
              /\ refresh_provider(last.name, settings, folder, clock, env).resp
                    = refresh_provider(last.name, Db0, folder, clock, env).resp

\* over a valid stored configuration, a body with an ftp address and
\* skip_existing = false was rejected; address and skip_existing are as before
C29_Witness ==
    /\ UpdateInvalid
    /\ Body = Dict(sFtpUrl, None, None, sFalseLower)
    /\ ~ConfigInvalid(HeldFrom(get_provider_settings(Db0, last.name)))
    /\ Resp.code = 400
    /\ get_provider_settings(settings, last.name)[<<"server_url">>] = sUrl
    /\ get_provider_settings(settings, last.name)[<<"skip_existing">>] = sTrue
    /\ test_provider_connection(last.name, settings, folder, clock, BaseEnv).resp.code = 200

\* force-sync got a RefreshResult of status failed
ForceSyncFailed ==
    /\ IsForceSync
    /\ last.out # <<>>
    /\ last.out[1].result # <<>>
    /\ last.out[1].result[1].status = FAILED

\* C30: in force-sync the deletion phase comes after validateConfig has
\* passed (nothing is deleted on a rejected configuration) and before any
\* contact with the external service (refresh, which makes every such
\* contact, is invoked on the folder with the files already gone), and it is
\* never undone: no deleted file is back as it was, and when refresh ends with
\* status failed without reaching the download loop the folder is left as
\* the deletion phase left it; the failed result is stored as the SyncRecord.
C30_DeletionOrderAndPermanence ==
    IsForceSync =>
        /\ last.removed # {} => (~ConfigInvalid(StoredConfig) /\ last.at_refresh # <<>>)
        /\ last.at_refresh # <<>> =>
              DOMAIN last.at_refresh[1].entries = DOMAIN Dir0.entries \ last.removed
        /\ \A n \in last.removed :
              n \in DOMAIN folder.entries => folder.entries[n] \in {"new", "part"}
        /\ ForceSyncFailed =>
              /\ LoopEvents(last.out[1].log) = <<>> =>
                    /\ folder.entries = last.at_refresh[1].entries
                    /\ last.removed \cap DOMAIN folder.entries = {}
              /\ Resp.code = 200
              /\ StoredRecord # <<>>
              /\ StoredRecord[1].status = FAILED
              /\ IsRecordOf(StoredRecord[1], last.out[1].result[1], last.now0)

\* B.JPG and b.txt were deleted, the asset listing then failed: both files
\* are gone and the failed result is the stored record
C30_Witness ==
    /\ ForceSyncFailed
    /\ ReconciliationRan
    /\ last.removed = {fUpperJpg, fTxt}
    /\ ListingFailed(last.out[1].log)
    /\ DOMAIN folder.entries = DOMAIN Dir0.entries \ {fUpperJpg, fTxt}
    /\ StoredRecord # <<>>
    /\ StoredRecord[1].status = FAILED
    /\ StoredRecord[1].timestamp = Timestamp(last.now0)

====
